---- MODULE Spec2Model ----
(***************************************************************************)
(* A model of the fiscal-document extraction backend:                      *)
(*   - DocumentAgent (src/document_agent.py): the multi-pass pipeline      *)
(*     process_document and its stages, with the reply parser              *)
(*     _parse_json_response;                                               *)
(*   - OpenAIService (src/openai_service.py): the field normalizers.       *)
(*                                                                         *)
(* Python values.  A value returned by json.loads is a record [t, m]:      *)
(* t = "dict" with m the mapping (a function from key strings to field     *)
(* values), or a non-mapping JSON value ("int": 42, "none": null).  A      *)
(* field value is a Python string, written as its sequence of one-         *)
(* character strings, or one of the values that are no string: None, a     *)
(* number (95 or 42), a list.                                              *)
(***************************************************************************)
EXTENDS Integers, Sequences, FiniteSets, TLC

VARIABLES
    pc,         \* position of process_document
    client,     \* self.client is set (TRUE) or None (FALSE)
    image,      \* the image_base64 argument, by its shape
    analysis,   \* document_analysis
    extracted,  \* extracted_data
    validated,  \* validated_data
    missing,    \* outcome of _detect_missing_important_fields
    refined,    \* refined_data of process_document
    meta,       \* confidence_metadata
    result,     \* the value process_document returns
    caught,     \* the except branch of process_document ran
    replies,    \* the model's reply to each stage's call, by stage
    calls,      \* the stages whose chat.completions.create was invoked, in order
    trace,      \* the stages process_document has run, in order
    text,       \* argument of a direct call of _parse_json_response
    parsed,     \* its outcome
    ppc,        \* position of that call
    fn,         \* the function a direct call invokes, "none" when there is none
    arg,        \* the argument of that call
    ret,        \* the value it returned
    peer        \* the locals of a second invocation of process_document on the same agent

pipelineVars == <<pc, client, image, analysis, extracted, validated, missing,
                  refined, meta, result, caught, replies, calls, trace>>
parseVars == <<text, parsed, ppc>>
unitVars == <<fn, arg, ret>>
vars == <<pc, client, image, analysis, extracted, validated, missing,
          refined, meta, result, caught, replies, calls, trace, text, parsed, ppc,
          fn, arg, ret, peer>>

----------------------------------------------------------------------------
(* Bounds of the model. *)

\* longest text, in tokens, given to a direct call of _parse_json_response
MaxTextLen == 5

\* longest amount, in characters, among those enumerated for _clean_amount
MaxAmountLen == 3

----------------------------------------------------------------------------
(* Python values *)

PyDict(f) == [t |-> "dict", m |-> f]
PyInt == [t |-> "int", m |-> <<>>]      \* the JSON number 42
PyNone == [t |-> "none", m |-> <<>>]    \* the JSON literal null
Unset == [t |-> "unset", m |-> <<>>]    \* a local not yet assigned
EmptyDict == PyDict(<<>>)

IsDict(x) == x.t = "dict"

\* bool(x) of a top-level value
Truthy(x) == \/ x.t = "int"
             \/ x.t = "dict" /\ DOMAIN x.m # {}

\* field values that are no strings
NoneV == <<"<None>">>
NumV == <<"<95>">>       \* the number 95
NumLowV == <<"<42>">>    \* the number 42
ListV == <<"<list>">>    \* a list, which is unhashable

IsStr(v) == v \notin {NoneV, NumV, NumLowV, ListV}
IsNum(v) == v \in {NumV, NumLowV}
NumOf(v) == IF v = NumV THEN 95 ELSE 42

\* bool(v) of a field value
FTruthy(v) == v # <<>> /\ v # NoneV

\* dict.get(key, default)
Get(f, k, default) == IF k \in DOMAIN f THEN f[k] ELSE default

\* {**a, **b}
Merge(a, b) == [k \in DOMAIN a \cup DOMAIN b |-> IF k \in DOMAIN b THEN b[k] ELSE a[k]]

----------------------------------------------------------------------------
(* Reply texts.  A text is a sequence of tokens: braces, a key/value member *)
(* of an object (with its separators), a prose word, a newline, the fences  *)
(* ```json and ```, and the JSON literals 42 and null.                      *)

Tok(c) == [c |-> c, k |-> "", v |-> <<>>]
LB == Tok("lb")
RB == Tok("rb")
W == Tok("w")
NL == Tok("nl")
FO == Tok("fo")
FC == Tok("fc")
NUM == Tok("num")
NULL == Tok("null")
KV(k, v) == [c |-> "kv", k |-> k, v |-> v]

IsWs(tok) == tok.c = "nl"

\* the text without its whitespace
StripWs(s) == SelectSeq(s, LAMBDA tok : ~IsWs(tok))

\* the object whose members are the key/value tokens of s (a repeated key keeps its last value)
KvMap(s) ==
    [k \in {s[i].k : i \in 1..Len(s)} |->
        s[CHOOSE i \in 1..Len(s) : s[i].k = k /\ \A j \in (i+1)..Len(s) : s[j].k # k].v]

\* json.loads(s): ok = FALSE stands for json.JSONDecodeError
JsonLoads(s) ==
    LET u == StripWs(s) IN
    IF Len(u) = 1 /\ u[1].c = "num" THEN [ok |-> TRUE, val |-> PyInt]
    ELSE IF Len(u) = 1 /\ u[1].c = "null" THEN [ok |-> TRUE, val |-> PyNone]
    ELSE IF /\ Len(u) >= 2
            /\ u[1].c = "lb"
            /\ u[Len(u)].c = "rb"
            /\ \A i \in 2..(Len(u) - 1) : u[i].c = "kv"
         THEN [ok |-> TRUE, val |-> PyDict(KvMap(SubSeq(u, 2, Len(u) - 1)))]
    ELSE [ok |-> FALSE, val |-> Unset]

IsFence(tok) == tok.c \in {"fo", "fc"}

\* re.search(r'```json\s*(.*?)\s*```', text, re.DOTALL): the positions of the
\* opening fence and of the first ``` after it, <<0, 0>> when there is no match
FencedMatch(s) ==
    LET opens == {i \in 1..Len(s) : s[i].c = "fo" /\ \E j \in (i+1)..Len(s) : IsFence(s[j])} IN
    IF opens = {} THEN <<0, 0>>
    ELSE LET i == CHOOSE a \in opens : \A b \in opens : a <= b
             j == CHOOSE a \in (i+1)..Len(s) :
                      IsFence(s[a]) /\ \A b \in (i+1)..(a-1) : ~IsFence(s[b])
         IN <<i, j>>

\* re.search(r'\{.*\}', text, re.DOTALL): the greedy span from the first { to
\* the last } after it, <<0, 0>> when there is no match
BraceMatch(s) ==
    LET opens == {i \in 1..Len(s) : s[i].c = "lb" /\ \E j \in (i+1)..Len(s) : s[j].c = "rb"} IN
    IF opens = {} THEN <<0, 0>>
    ELSE LET i == CHOOSE a \in opens : \A b \in opens : a <= b
             j == CHOOSE a \in (i+1)..Len(s) :
                      s[a].c = "rb" /\ \A b \in (a+1)..Len(s) : s[b].c # "rb"
         IN <<i, j>>

\* text.strip().split('\n'), then the first line with line.strip().startswith('{'):
\* its first and last position, <<0, 0>> when no line begins with {
BraceLine(s) ==
    LET starts == {i \in 1..Len(s) :
                      /\ s[i].c = "lb"
                      /\ (i = 1 \/ s[i-1].c = "nl")} IN
    IF starts = {} THEN <<0, 0>>
    ELSE LET i == CHOOSE a \in starts : \A b \in starts : a <= b
             ends == {a \in i..Len(s) : a = Len(s) \/ s[a+1].c = "nl"}
             j == CHOOSE a \in ends : \A b \in ends : a <= b
         IN <<i, j>>

\* the result of one fallback strategy: json.loads of the candidate, and {}
\* from the handler `except Exception` when it does not parse
Candidate(s, by) ==
    LET r == JsonLoads(s) IN
    IF r.ok THEN [raised |-> FALSE, val |-> r.val, by |-> by, failed |-> FALSE]
    ELSE [raised |-> FALSE, val |-> EmptyDict, by |-> by, failed |-> TRUE]

\* _parse_json_response(text).  by: the strategy that decided the result;
\* failed: that strategy's candidate did not parse.
ParseJsonResponse(s) ==
    LET direct == JsonLoads(s)
        f == FencedMatch(s)
        b == BraceMatch(s)
        l == BraceLine(s)
    IN
    IF direct.ok THEN [raised |-> FALSE, val |-> direct.val, by |-> "direct", failed |-> FALSE]
    ELSE IF f # <<0, 0>> THEN Candidate(SubSeq(s, f[1] + 1, f[2] - 1), "fenced")
    ELSE IF b # <<0, 0>> THEN Candidate(SubSeq(s, b[1], b[2]), "braces")
    ELSE IF l # <<0, 0>> THEN Candidate(SubSeq(s, l[1], l[2]), "line")
    ELSE [raised |-> FALSE, val |-> EmptyDict, by |-> "none", failed |-> FALSE]

----------------------------------------------------------------------------
(* String literals of the source, as character sequences. *)

S_Boleta == <<"B","o","l","e","t","a">>
S_Factura == <<"F","a","c","t","u","r","a">>
S_unknown == <<"u","n","k","n","o","w","n">>
S_buena == <<"b","u","e","n","a">>
S_media == <<"m","e","d","i","a">>
S_mala == <<"m","a","l","a">>
S_es == <<"e","s">>
S_simple == <<"s","i","m","p","l","e">>
S_CLP == <<"C","L","P">>

\* The fixed advisory messages are never taken apart: each is written as one string.
NoteUnavailable == "Agente no disponible - datos de ejemplo"
NoteLowQuality == "Imagen de baja calidad - algunos datos pueden ser imprecisos"
NoteNoRut == "RUT no detectado - verificar manualmente"
NoteNoFecha == "Fecha no detectada - verificar manualmente"
NoteLowConfidence == "Confianza baja - revisar datos extraídos"

\* str.strip(): without the leading and trailing blanks
Strip(v) ==
    LET idx == {i \in 1..Len(v) : v[i] # " "} IN
    IF idx = {} THEN <<>>
    ELSE SubSeq(v, CHOOSE a \in idx : \A b \in idx : a <= b,
                   CHOOSE a \in idx : \A b \in idx : a >= b)

----------------------------------------------------------------------------
(* The field normalizers of OpenAIService, on strings.  A regular expression *)
(* is searched as re.search does: the leftmost match, each \d{1,2} taking    *)
(* two digits where the rest of the pattern still matches.                   *)

IsDigit(c) == c \in {"0", "1", "2", "3", "4", "5", "6", "7", "8", "9"}

\* s holds n digits from position i on
DigitsAt(s, i, n) == i >= 1 /\ i + n - 1 <= Len(s) /\ \A k \in i..(i + n - 1) : IsDigit(s[k])

\* [\/\-] at position i
SepAt(s, i) == i >= 1 /\ i <= Len(s) /\ s[i] \in {"/", "-"}

\* among the matches <<start, length of the first group, length of the second>>,
\* the one re.search returns
FirstMatch(ms) ==
    CHOOSE m \in ms : \A n \in ms :
        \/ m[1] < n[1]
        \/ m[1] = n[1] /\ m[2] > n[2]
        \/ m[1] = n[1] /\ m[2] = n[2] /\ m[3] >= n[3]

\* the matches of (\d{1,2})[\/\-](\d{1,2})[\/\-](\d{4})
DayFirstMatches(s) ==
    {m \in (1..Len(s)) \X {1, 2} \X {1, 2} :
        /\ DigitsAt(s, m[1], m[2])
        /\ SepAt(s, m[1] + m[2])
        /\ DigitsAt(s, m[1] + m[2] + 1, m[3])
        /\ SepAt(s, m[1] + m[2] + m[3] + 1)
        /\ DigitsAt(s, m[1] + m[2] + m[3] + 2, 4)}

\* the matches of (\d{4})[\/\-](\d{1,2})[\/\-](\d{1,2}): <<start, length of
\* the second group, length of the third>>
YearFirstMatches(s) ==
    {m \in (1..Len(s)) \X {1, 2} \X {1, 2} :
        /\ DigitsAt(s, m[1], 4)
        /\ SepAt(s, m[1] + 4)
        /\ DigitsAt(s, m[1] + 5, m[2])
        /\ SepAt(s, m[1] + 5 + m[2])
        /\ DigitsAt(s, m[1] + 6 + m[2], m[3])}

\* _validate_date_format returning a year-first date as it stands
ValidateDateFormatKeepsOrder(s) ==
    IF s = <<>> THEN NoneV
    ELSE IF DayFirstMatches(s) # {} THEN
        LET m == FirstMatch(DayFirstMatches(s))
            i == m[1]
            a == m[2]
            b == m[3]
        IN SubSeq(s, i, i + a - 1) \o <<"/">> \o SubSeq(s, i + a + 1, i + a + b)
           \o <<"/">> \o SubSeq(s, i + a + b + 2, i + a + b + 5)
    ELSE s

\* _validate_date_format
ValidateDateFormat(s) ==
    IF s = <<>> THEN NoneV
    ELSE IF DayFirstMatches(s) # {} THEN
        LET m == FirstMatch(DayFirstMatches(s))
            i == m[1]
            a == m[2]
            b == m[3]
        IN SubSeq(s, i, i + a - 1) \o <<"/">> \o SubSeq(s, i + a + 1, i + a + b)
           \o <<"/">> \o SubSeq(s, i + a + b + 2, i + a + b + 5)
    ELSE IF YearFirstMatches(s) # {} THEN
        LET m == FirstMatch(YearFirstMatches(s))
            i == m[1]
            b == m[2]
            c == m[3]
        IN SubSeq(s, i + 6 + b, i + 5 + b + c) \o <<"/">> \o SubSeq(s, i + 5, i + 4 + b)
           \o <<"/">> \o SubSeq(s, i, i + 3)
    ELSE s

IsRutChar(c) == IsDigit(c) \/ c \in {"-", "k", "K"}

\* the matches of (\d{1,2})\.?(\d{3})\.?(\d{3})[\-]?([\dkK]) in a string without
\* dots: <<start, length of the first group, 1 when the hyphen is there else 0>>
RutMatches(s) ==
    {m \in (1..Len(s)) \X {1, 2} \X {0, 1} :
        /\ DigitsAt(s, m[1], m[2] + 6)
        /\ m[3] = 1 => (m[1] + m[2] + 6 <= Len(s) /\ s[m[1] + m[2] + 6] = "-")
        /\ m[1] + m[2] + 6 + m[3] <= Len(s)
        /\ LET c == s[m[1] + m[2] + 6 + m[3]] IN IsDigit(c) \/ c \in {"k", "K"}}

\* the checksum character as written
UpperKeeps(c) == c

\* str.upper() of the checksum character
Upper(c) == IF c = "k" THEN "K" ELSE c

\* _validate_rut_format
ValidateRutFormat(s) ==
    IF s = <<>> THEN NoneV
    ELSE LET clean == SelectSeq(s, IsRutChar) IN
         IF RutMatches(clean) = {} THEN s
         ELSE LET m == FirstMatch(RutMatches(clean))
                  i == m[1]
                  a == m[2]
              IN SubSeq(clean, i, i + a - 1) \o <<".">> \o SubSeq(clean, i + a, i + a + 2)
                 \o <<".">> \o SubSeq(clean, i + a + 3, i + a + 5)
                 \o <<"-", Upper(clean[i + a + 6 + m[3]])>>

IsAmountChar(c) == IsDigit(c) \/ c = "."

\* float(cleaned) succeeds: digits with at most one decimal point
ParsesAsFloat(s) ==
    /\ \E i \in 1..Len(s) : IsDigit(s[i])
    /\ Cardinality({i \in 1..Len(s) : s[i] = "."}) <= 1

\* _clean_amount returning the cleaned text without the float check
CleanAmountUnchecked(s) ==
    IF s = <<>> THEN NoneV
    ELSE SelectSeq(s, IsAmountChar)

\* _clean_amount
CleanAmount(s) ==
    IF s = <<>> THEN NoneV
    ELSE LET cleaned == SelectSeq(s, IsAmountChar) IN
         IF ParsesAsFloat(cleaned) THEN cleaned ELSE NoneV

\* _clean_extracted_data, for a mapping whose values are strings or None
CleanExtractedData(d) ==
    LET cleaned == [k \in DOMAIN d |->
                       IF d[k] = NoneV \/ d[k] = <<>> \/ d[k] = <<"n","u","l","l">>
                       THEN NoneV ELSE Strip(d[k])]
    IN [k \in DOMAIN d |->
           IF ~FTruthy(cleaned[k]) THEN cleaned[k]
           ELSE IF k = "fecha" THEN ValidateDateFormat(cleaned[k])
           ELSE IF k = "rut" THEN ValidateRutFormat(cleaned[k])
           ELSE IF k \in {"total", "impuestos"} THEN CleanAmount(cleaned[k])
           ELSE cleaned[k]]

----------------------------------------------------------------------------
(* The stages of DocumentAgent. *)

Raise == [kind |-> "raise", text |-> <<>>]          \* chat.completions.create raises
NoContent == [kind |-> "nocontent", text |-> <<>>]  \* message.content is None
NoReply == [kind |-> "nocall", text |-> <<>>]       \* the stage made no call
TextReply(s) == [kind |-> "text", text |-> s]

Stages == {"classify", "extract", "validate", "refine"}

\* _clean_base64 raises IndexError on an image that starts with 'data:image'
\* and holds no comma: split(',')[1] does not exist
CleanBase64Raises(img) == img = "badprefix"

\* the statements after the call: content[:200] raises on None, then the parse
AfterCall(reply, failval) ==
    IF reply.kind # "text" THEN failval
    ELSE LET p == ParseJsonResponse(reply.text) IN
         IF p.raised THEN failval ELSE p.val

DefaultAnalysis ==
    PyDict([type |-> S_unknown, quality |-> S_unknown, language |-> S_es,
            format |-> S_unknown, complexity |-> S_simple])

AnalyzeCalls(img) == ~CleanBase64Raises(img)

\* _analyze_document_type
AnalyzeDocumentType(img, reply) ==
    IF ~AnalyzeCalls(img) THEN DefaultAnalysis
    ELSE AfterCall(reply, DefaultAnalysis)

ExtractCalls(img, an) ==
    /\ ~CleanBase64Raises(img)
    /\ IsDict(an)                               \* document_analysis.get
    /\ Get(an.m, "type", S_Boleta) # ListV      \* prompts.get(doc_type): unhashable

\* _extract_document_data with the analysis as the handler's value
ExtractDocumentDataKeepsAnalysis(img, an, reply) ==
    IF ~ExtractCalls(img, an) THEN an
    ELSE AfterCall(reply, an)

\* _extract_document_data
ExtractDocumentData(img, an, reply) ==
    IF ~ExtractCalls(img, an) THEN EmptyDict
    ELSE AfterCall(reply, EmptyDict)

BlankRecord(tipo) ==
    PyDict([referencia |-> <<>>, tipoDocumento |-> tipo, numeroDocumento |-> <<>>,
            fecha |-> <<>>, moneda |-> S_CLP, nombre |-> <<>>, rut |-> <<>>,
            total |-> <<>>, detalle |-> <<>>, impuestos |-> <<>>, porcentaje |-> <<>>])

\* the test of line 199: "short" the short circuit is taken, "raise" the test
\* raises (.get of a value that is no mapping), "go" the validation goes on
EmptyOrError(ex) ==
    IF ~Truthy(ex) THEN "short"
    ELSE IF ~IsDict(ex) THEN "raise"
    ELSE IF FTruthy(Get(ex.m, "error", NoneV)) THEN "short"
    ELSE "go"

ValidateCalls(ex, an) == EmptyOrError(ex) = "go" /\ IsDict(an)

\* a record with each present date, national-ID and amount field replaced by
\* the result of its normalizer, every other key passed through
NormalizeFields(d) ==
    [k \in DOMAIN d |->
        IF ~(IsStr(d[k]) /\ d[k] # <<>>) THEN d[k]
        ELSE IF k = "fecha" THEN ValidateDateFormat(d[k])
        ELSE IF k = "rut" THEN ValidateRutFormat(d[k])
        ELSE IF k \in {"total", "impuestos"} THEN CleanAmount(d[k])
        ELSE d[k]]

\* _validate_and_refine normalizing the record itself, without a model call
ValidateAndRefineLocally(ex, an, reply) ==
    IF EmptyOrError(ex) = "raise" THEN ex
    ELSE IF ~IsDict(an) THEN ex
    ELSE IF EmptyOrError(ex) = "short" THEN BlankRecord(Get(an.m, "type", S_Boleta))
    ELSE PyDict(NormalizeFields(ex.m))

\* _validate_and_refine
ValidateAndRefine(ex, an, reply) ==
    IF EmptyOrError(ex) = "raise" THEN ex
    ELSE IF ~IsDict(an) THEN ex
    ELSE IF EmptyOrError(ex) = "short" THEN BlankRecord(Get(an.m, "type", S_Boleta))
    ELSE AfterCall(reply, ex)

ImportantFields == <<"email", "telefono", "direccion", "ciudad", "codigo_postal">>

Variations(field) ==
    CASE field = "email" -> <<"email", "correo", "e-mail", "mail">>
      [] field = "telefono" -> <<"telefono", "teléfono", "fono", "phone">>
      [] field = "direccion" -> <<"direccion", "dirección", "address", "domicilio">>
      [] field = "ciudad" -> <<"ciudad", "city", "comuna">>
      [] field = "codigo_postal" -> <<"codigo_postal", "código postal", "postal", "zip">>

\* the loop over the variations, from the i-th on: "found", "none", or "raise"
\* (.strip() of a value that is no string)
RECURSIVE ScanVariations(_, _, _)
ScanVariations(d, vs, i) ==
    IF i > Len(vs) THEN "none"
    ELSE LET v == Get(d, vs[i], <<>>) IN
         IF ~IsStr(v) THEN "raise"
         ELSE IF Strip(v) # <<>> THEN "found"
         ELSE ScanVariations(d, vs, i + 1)

\* the loop over important_fields, from the i-th on, with the list built so far
RECURSIVE DetectFrom(_, _, _)
DetectFrom(d, i, acc) ==
    IF i > Len(ImportantFields) THEN [raised |-> FALSE, list |-> acc]
    ELSE LET f == ImportantFields[i]
             fv == Get(d, f, <<>>)
         IN
         IF FTruthy(fv) /\ ~IsStr(fv) THEN [raised |-> TRUE, list |-> <<>>]
         ELSE IF FTruthy(fv) /\ Strip(fv) # <<>> THEN DetectFrom(d, i + 1, acc)
         ELSE LET sc == ScanVariations(d, Variations(f), 1) IN
              IF sc = "raise" THEN [raised |-> TRUE, list |-> <<>>]
              ELSE IF sc = "found" THEN DetectFrom(d, i + 1, acc)
              ELSE DetectFrom(d, i + 1, Append(acc, f))

\* _detect_missing_important_fields
DetectMissingImportantFields(data) ==
    IF ~IsDict(data) THEN [raised |-> TRUE, list |-> <<>>]
    ELSE DetectFrom(data.m, 1, <<>>)

NotDetected == [raised |-> FALSE, list |-> <<"-">>]  \* the detector has not run

\* _iterative_refinement without the test of line 260
NeedsRefinementAlways(ms) == ~ms.raised

\* line 260: _iterative_refinement goes on to the refinement call
NeedsRefinement(ms) == ~ms.raised /\ ms.list # <<>>

RefineCalls(img) == ~CleanBase64Raises(img)

\* _refine_with_specific_instructions
RefineWithSpecificInstructions(img, reply) ==
    IF ~RefineCalls(img) THEN EmptyDict
    ELSE AfterCall(reply, EmptyDict)

\* _iterative_refinement returning refined_data in place of the merge
CombineRefinementReplaces(vd, rd) ==
    IF ~IsDict(rd) THEN vd
    ELSE rd

\* line 275, final_data = {**validated_data, **refined_data}, and the handler
\* of _iterative_refinement when refined_data is no mapping
CombineRefinement(vd, rd) ==
    IF ~IsDict(rd) THEN vd
    ELSE PyDict(Merge(vd.m, rd.m))

RequiredForScore == {"referencia", "fecha", "total", "nombre"}

DefaultMeta ==
    PyDict([confidence |-> 0, quality_assessment |-> S_unknown, completeness_score |-> 0])

\* the test data.get("confidence", 0) < 70 of _generate_processing_notes raises
\* TypeError on a value that is no number
NotesRaise(d) == "confidence" \in DOMAIN d /\ ~IsNum(d["confidence"])

\* _generate_processing_notes, where it does not raise
GenerateProcessingNotes(d, an) ==
    (IF Get(an, "quality", NoneV) = S_mala THEN <<NoteLowQuality>> ELSE <<>>)
    \o (IF ~FTruthy(Get(d, "rut", NoneV)) THEN <<NoteNoRut>> ELSE <<>>)
    \o (IF ~FTruthy(Get(d, "fecha", NoneV)) THEN <<NoteNoFecha>> ELSE <<>>)
    \o (IF "confidence" \notin DOMAIN d \/ NumOf(d["confidence"]) < 70
        THEN <<NoteLowConfidence>> ELSE <<>>)

\* quality_multiplier, in tenths
QualityMultiplier(q) ==
    CASE q = S_buena -> 10
      [] q = S_media -> 8
      [] q = S_mala -> 6
      [] OTHER -> 8

Min(a, b) == IF a <= b THEN a ELSE b

\* _generate_confidence_metadata
GenerateConfidenceMetadata(data, an) ==
    IF ~IsDict(data) \/ ~IsDict(an) THEN DefaultMeta
    ELSE LET completed == Cardinality({f \in RequiredForScore : FTruthy(Get(data.m, f, NoneV))})
             q == Get(an.m, "quality", S_media)
         IN
         IF q = ListV THEN DefaultMeta
         ELSE IF NotesRaise(data.m) THEN DefaultMeta
         ELSE PyDict([confidence |-> Min((completed * 25 * QualityMultiplier(q)) \div 10, 100),
                      quality_assessment |-> Get(an.m, "quality", S_unknown),
                      completeness_score |-> completed,
                      processing_notes |-> GenerateProcessingNotes(data.m, an.m)])

\* _get_fallback_data
GetFallbackData ==
    PyDict([referencia |-> <<>>, tipoDocumento |-> S_Boleta, numeroDocumento |-> <<>>,
            fecha |-> <<>>, moneda |-> S_CLP, nombre |-> <<>>, rut |-> <<>>,
            total |-> <<>>, detalle |-> <<>>,
            confidence |-> 0, quality_assessment |-> S_unknown,
            processing_notes |-> <<NoteUnavailable>>,
            processing_metadata |-> [agent_version |-> "1.0.0", processing_steps |-> 0,
                                     document_type |-> S_unknown, confidence_score |-> 0]])

\* the result mapping with the completeness count written as confidence_score
CombineResultScoresCompleteness(rd, mt, an) ==
    IF ~IsDict(rd) \/ ~IsDict(an) THEN [exc |-> TRUE, val |-> Unset]
    ELSE [exc |-> FALSE,
          val |-> PyDict(Merge(Merge(rd.m, mt.m),
                    [processing_metadata |->
                        [agent_version |-> "1.0.0", processing_steps |-> 3,
                         document_type |-> Get(an.m, "type", S_unknown),
                         confidence_score |-> Get(mt.m, "completeness_score", 0)]]))]

\* lines 67-76: the result mapping; exc when building it raises (** of a value
\* that is no mapping, .get of an analysis that is no mapping)
CombineResult(rd, mt, an) ==
    IF ~IsDict(rd) \/ ~IsDict(an) THEN [exc |-> TRUE, val |-> Unset]
    ELSE [exc |-> FALSE,
          val |-> PyDict(Merge(Merge(rd.m, mt.m),
                    [processing_metadata |->
                        [agent_version |-> "1.0.0", processing_steps |-> 3,
                         document_type |-> Get(an.m, "type", S_unknown),
                         confidence_score |-> Get(mt.m, "confidence", 0)]]))]

\* process_document without its handler: the exception leaves the call
ExceptHandlerReraises(o) ==
    IF o.exc THEN [raised |-> TRUE, val |-> Unset]
    ELSE [raised |-> FALSE, val |-> o.val]

\* lines 81-83: the handler of process_document
ExceptHandler(o) ==
    IF o.exc THEN [raised |-> FALSE, val |-> GetFallbackData]
    ELSE [raised |-> FALSE, val |-> o.val]

----------------------------------------------------------------------------
(* The inputs of the model: the shapes of the image argument and, for each  *)
(* stage, the replies of the model service the stage is run against.        *)

V_Folio == <<"F","1">>
V_FechaCanon == <<"1","5","/","1","0","/","2","0","2","4">>
V_FechaIso == <<"2","0","2","4","-","1","0","-","1","5">>
V_Total == <<"1","5","0","0","0">>
V_TotalRaw == <<"$","1","5",".","0","0","0">>
V_Acme == <<"A","C","M","E">>
V_Otro == <<"O","T","R","O">>
V_Rut == <<"7","6",".","1","2","3",".","4","5","6","-","7">>
V_RutRaw == <<"7","6","1","2","3","4","5","6","-","k">>
V_Mail == <<"a","@","b",".","c","l">>
V_Fono == <<"+","5","6","9">>
V_Calle == <<"C","1">>
V_Ciudad == <<"S","C","L">>
V_Zip == <<"8","3">>
V_Blank == <<" ">>
V_Alta == <<"a","l","t","a">>
V_Ilegible == <<"x">>
V_Digital == <<"d","i","g","i","t","a","l">>

\* plain base64; a data URL 'data:image/...;base64,<data>'; a string that
\* starts with 'data:image' and holds no comma
Images == {"plain", "dataurl", "badprefix"}

Obj(members) == <<LB>> \o members \o <<RB>>

T_Num == <<NUM>>            \* 42
T_Null == <<NULL>>          \* null
T_Prose == <<W, W>>         \* a reply without any JSON
T_Empty == Obj(<<>>)        \* {}
T_Stray == Obj(<<KV("referencia", V_Folio)>>) \o <<W, RB>>   \* an object, prose and a stray }

AnalysisFull ==
    [type |-> S_Factura, quality |-> S_buena, language |-> S_es,
     format |-> V_Digital, complexity |-> S_simple]
CT_Full ==
    Obj(<<KV("type", S_Factura), KV("quality", S_buena), KV("language", S_es),
          KV("format", V_Digital), KV("complexity", S_simple)>>)
AnalysisMala == [type |-> S_Boleta, quality |-> S_mala]
CT_Mala == <<W>> \o Obj(<<KV("type", S_Boleta), KV("quality", S_mala)>>) \o <<W>>
AnalysisNoType == [quality |-> S_media]
CT_NoType == <<FO, NL>> \o Obj(<<KV("quality", S_media)>>) \o <<NL, FC>>
AnalysisList == [type |-> ListV, quality |-> ListV]
CT_List == Obj(<<KV("type", ListV), KV("quality", ListV)>>)

ClassifierReplies ==
    {Raise, NoContent}
    \cup {TextReply(s) : s \in {CT_Full, CT_Mala, CT_NoType, CT_List, T_Num, T_Null, T_Prose}}

RecordFull ==
    [referencia |-> V_Folio, tipoDocumento |-> S_Factura, fecha |-> V_FechaCanon,
     total |-> V_Total, nombre |-> V_Acme, rut |-> V_Rut, email |-> V_Mail,
     telefono |-> V_Fono, direccion |-> V_Calle, ciudad |-> V_Ciudad,
     codigo_postal |-> V_Zip]
ET_Full ==
    Obj(<<KV("referencia", V_Folio), KV("tipoDocumento", S_Factura),
          KV("fecha", V_FechaCanon), KV("total", V_Total), KV("nombre", V_Acme),
          KV("rut", V_Rut), KV("email", V_Mail), KV("telefono", V_Fono),
          KV("direccion", V_Calle), KV("ciudad", V_Ciudad), KV("codigo_postal", V_Zip)>>)
RecordRaw ==
    [referencia |-> V_Folio, fecha |-> V_FechaIso, total |-> V_TotalRaw,
     rut |-> V_RutRaw, correo |-> V_Mail, extra |-> V_Blank]
ET_Raw ==
    <<W, NL>> \o
    Obj(<<KV("referencia", V_Folio), KV("fecha", V_FechaIso), KV("total", V_TotalRaw),
          KV("rut", V_RutRaw), KV("correo", V_Mail), KV("extra", V_Blank)>>)
RecordError == [error |-> V_Ilegible, total |-> V_Total]
ET_Error == Obj(<<KV("error", V_Ilegible), KV("total", V_Total)>>)
RecordNullEmail == [nombre |-> V_Acme, email |-> NoneV]
ET_NullEmail == Obj(<<KV("nombre", V_Acme), KV("email", NoneV)>>)

ExtractorReplies ==
    {Raise, NoContent}
    \cup {TextReply(s) : s \in {ET_Full, ET_Raw, ET_Error, ET_NullEmail,
                                T_Num, T_Null, T_Prose, T_Empty, T_Stray}}

RecordPartial == [referencia |-> V_Folio, fecha |-> V_FechaCanon, nombre |-> V_Acme]
VT_Full == <<FO>> \o ET_Full \o <<FC>>
VT_Partial ==
    Obj(<<KV("referencia", V_Folio), KV("fecha", V_FechaCanon), KV("nombre", V_Acme)>>)
RecordScored ==
    [referencia |-> V_Folio, fecha |-> V_FechaCanon, total |-> V_Total,
     nombre |-> V_Acme, rut |-> V_Rut, confidence |-> NumV, email |-> V_Mail,
     fono |-> V_Fono, domicilio |-> V_Calle, comuna |-> V_Ciudad, zip |-> V_Zip]
VT_Scored ==
    Obj(<<KV("referencia", V_Folio), KV("fecha", V_FechaCanon), KV("total", V_Total),
          KV("nombre", V_Acme), KV("rut", V_Rut), KV("confidence", NumV),
          KV("email", V_Mail), KV("fono", V_Fono), KV("domicilio", V_Calle),
          KV("comuna", V_Ciudad), KV("zip", V_Zip)>>)
RecordRated == [referencia |-> V_Folio, total |-> V_Total, confidence |-> V_Alta]
VT_Rated ==
    Obj(<<KV("referencia", V_Folio), KV("total", V_Total), KV("confidence", V_Alta)>>)
RecordOdd == [email |-> V_Blank, telefono |-> NumLowV, nombre |-> V_Acme]
VT_Odd == Obj(<<KV("email", V_Blank), KV("telefono", NumLowV), KV("nombre", V_Acme)>>)

ValidatorReplies ==
    {Raise, NoContent}
    \cup {TextReply(s) : s \in {VT_Full, VT_Partial, VT_Scored, VT_Rated, VT_Odd,
                                T_Num, T_Null, T_Prose, T_Empty}}

RecordContacts == [email |-> V_Mail, telefono |-> V_Fono]
RT_Contacts == <<W, NL, FO, NL>> \o Obj(<<KV("email", V_Mail), KV("telefono", V_Fono)>>) \o <<NL, FC>>
RecordOverride == [nombre |-> V_Otro, email |-> <<>>, confidence |-> NumLowV]
RT_Override == Obj(<<KV("nombre", V_Otro), KV("email", <<>>), KV("confidence", NumLowV)>>)

RefinementReplies ==
    {Raise, NoContent}
    \cup {TextReply(s) : s \in {RT_Contacts, RT_Override, T_Num, T_Null, T_Prose, T_Empty}}

\* the tokens of the texts given to a direct call of _parse_json_response
Alphabet == {LB, RB, KV("a", <<"1">>), W, NL, FO, FC, NUM, NULL}
Texts == UNION {[1..n -> Alphabet] : n \in 0..MaxTextLen}

NotParsed == [raised |-> FALSE, val |-> Unset, by |-> "none", failed |-> FALSE]

----------------------------------------------------------------------------
(* process_document, one step per stage. *)

NoReplies == [st \in Stages |-> NoReply]

\* a stage's call: the reply when the stage reaches chat.completions.create
Replies(reached, set) == IF reached THEN set ELSE {NoReply}
Called(reached, st) ==
    /\ calls' = IF reached THEN Append(calls, st) ELSE calls

\* process_document without the test of line 47
StartIgnoresClient ==
    /\ pc = "start"
    /\ pc' = "classify"
    /\ UNCHANGED <<client, image, analysis, extracted, validated, missing, refined,
                   meta, result, caught, replies, calls, trace, text, parsed, ppc, fn, arg, ret, peer>>

\* lines 47-48
Start ==
    /\ pc = "start"
    /\ IF client
         THEN pc' = "classify" /\ UNCHANGED result
         ELSE pc' = "done" /\ result' = GetFallbackData
    /\ UNCHANGED <<client, image, analysis, extracted, validated, missing, refined,
                   meta, caught, replies, calls, trace, text, parsed, ppc, fn, arg, ret, peer>>

\* line 52
Classify ==
    /\ pc = "classify"
    /\ \E r \in Replies(AnalyzeCalls(image), ClassifierReplies) :
          /\ analysis' = AnalyzeDocumentType(image, r)
          /\ replies' = [replies EXCEPT !["classify"] = r]
    /\ Called(AnalyzeCalls(image), "classify")
    /\ pc' = "extract"
    /\ trace' = Append(trace, "classify")
    /\ UNCHANGED <<client, image, extracted, validated, missing, refined, meta,
                   result, caught, text, parsed, ppc, fn, arg, ret, peer>>

\* line 55
Extract ==
    /\ pc = "extract"
    /\ \E r \in Replies(ExtractCalls(image, analysis), ExtractorReplies) :
          /\ extracted' = ExtractDocumentData(image, analysis, r)
          /\ replies' = [replies EXCEPT !["extract"] = r]
    /\ Called(ExtractCalls(image, analysis), "extract")
    /\ pc' = "validate"
    /\ trace' = Append(trace, "extract")
    /\ UNCHANGED <<client, image, analysis, validated, missing, refined, meta,
                   result, caught, text, parsed, ppc, fn, arg, ret, peer>>

\* line 58
Validate ==
    /\ pc = "validate"
    /\ \E r \in Replies(ValidateCalls(extracted, analysis), ValidatorReplies) :
          /\ validated' = ValidateAndRefine(extracted, analysis, r)
          /\ replies' = [replies EXCEPT !["validate"] = r]
    /\ Called(ValidateCalls(extracted, analysis), "validate")
    /\ pc' = "detect"
    /\ trace' = Append(trace, "validate")
    /\ UNCHANGED <<client, image, analysis, extracted, missing, refined, meta,
                   result, caught, text, parsed, ppc, fn, arg, ret, peer>>

\* line 61, _iterative_refinement up to line 262
DetectMissing ==
    /\ pc = "detect"
    /\ missing' = DetectMissingImportantFields(validated)
    /\ IF NeedsRefinement(missing')
         THEN pc' = "refine" /\ UNCHANGED refined
         ELSE pc' = "score" /\ refined' = validated
    /\ trace' = Append(trace, "detect")
    /\ UNCHANGED <<client, image, analysis, extracted, validated, meta, result,
                   caught, replies, calls, text, parsed, ppc, fn, arg, ret, peer>>

\* _iterative_refinement repeating the refinement call once after it raised
RefineRetries ==
    /\ pc = "refine"
    /\ \E r \in Replies(RefineCalls(image), RefinementReplies) :
          /\ refined' = CombineRefinement(validated, RefineWithSpecificInstructions(image, r))
          /\ replies' = [replies EXCEPT !["refine"] = r]
          /\ pc' = IF r = Raise /\ trace[Len(trace)] # "refine" THEN "refine" ELSE "score"
    /\ Called(RefineCalls(image), "refine")
    /\ trace' = Append(trace, "refine")
    /\ UNCHANGED <<client, image, analysis, extracted, validated, missing, meta,
                   result, caught, text, parsed, ppc, fn, arg, ret, peer>>

\* _iterative_refinement from line 267 on
Refine ==
    /\ pc = "refine"
    /\ \E r \in Replies(RefineCalls(image), RefinementReplies) :
          /\ refined' = CombineRefinement(validated, RefineWithSpecificInstructions(image, r))
          /\ replies' = [replies EXCEPT !["refine"] = r]
    /\ Called(RefineCalls(image), "refine")
    /\ pc' = "score"
    /\ trace' = Append(trace, "refine")
    /\ UNCHANGED <<client, image, analysis, extracted, validated, missing, meta,
                   result, caught, text, parsed, ppc, fn, arg, ret, peer>>

\* line 64
Score ==
    /\ pc = "score"
    /\ meta' = GenerateConfidenceMetadata(refined, analysis)
    /\ pc' = "combine"
    /\ trace' = Append(trace, "score")
    /\ UNCHANGED <<client, image, analysis, extracted, validated, missing, refined,
                   result, caught, replies, calls, text, parsed, ppc, fn, arg, ret, peer>>

\* lines 67-83
Combine ==
    /\ pc = "combine"
    /\ LET built == CombineResult(refined, meta, analysis)
           o == ExceptHandler(built)
       IN /\ caught' = built.exc
          /\ result' = o.val
          /\ pc' = IF o.raised THEN "raised" ELSE "done"
    /\ UNCHANGED <<client, image, analysis, extracted, validated, missing, refined,
                   meta, replies, calls, trace, text, parsed, ppc, fn, arg, ret, peer>>

PipelineIdle(at) ==
    /\ pc = at
    /\ analysis = Unset /\ extracted = Unset /\ validated = Unset
    /\ missing = NotDetected
    /\ refined = Unset /\ meta = Unset /\ result = Unset
    /\ caught = FALSE
    /\ replies = NoReplies
    /\ calls = <<>>
    /\ trace = <<>>

ParseIdle == text = <<>> /\ parsed = NotParsed /\ ppc = "idle"

\* no direct call: no argument, nothing returned
NoRet == [done |-> FALSE, val |-> <<>>]
Returns(v) == [done |-> TRUE, val |-> v]
UnitIdle == fn = "none" /\ arg = <<>> /\ ret = NoRet

NoPeer == [pc |-> "none"]

\* an invocation of process_document on an agent whose client was or was not
\* established by _initialize_client, for an image of any shape
Init ==
    /\ client \in BOOLEAN
    /\ image \in Images
    /\ PipelineIdle("start")
    /\ ParseIdle
    /\ UnitIdle
    /\ peer = NoPeer

Next ==
    \/ Start
    \/ Classify
    \/ Extract
    \/ Validate
    \/ DetectMissing
    \/ Refine
    \/ Score
    \/ Combine

Spec == Init /\ [][Next]_vars

----------------------------------------------------------------------------
(* Direct calls of _parse_json_response on every text of the bounded set. *)

ParseCall ==
    /\ ppc = "call"
    /\ parsed' = ParseJsonResponse(text)
    /\ ppc' = "returned"
    /\ UNCHANGED <<text, pc, client, image, analysis, extracted, validated, missing,
                   refined, meta, result, caught, replies, calls, trace,
                   fn, arg, ret, peer>>

InitParse ==
    /\ client = TRUE
    /\ image = "plain"
    /\ PipelineIdle("idle")
    /\ text \in Texts
    /\ parsed = NotParsed
    /\ ppc = "call"
    /\ UnitIdle
    /\ peer = NoPeer

NextParse == ParseCall

SpecParse == InitParse /\ [][NextParse]_vars

----------------------------------------------------------------------------
(* Direct calls of _generate_confidence_metadata. *)

\* the mapping with the members of o whose value is not "absent"
Present(o) == [k \in {j \in DOMAIN o : o[j] # <<"<absent>">>} |-> o[k]]
Absent == <<"<absent>">>

\* records: each scored field absent, empty or set (referencia also blank),
\* with or without a rut, with or without a key confidence brought by the
\* model's reply
ScoreRecords ==
    {PyDict(Present([referencia |-> a, fecha |-> b, total |-> c, nombre |-> d,
                     rut |-> r, confidence |-> e])) :
        a \in {Absent, <<>>, V_Folio, V_Blank}, b \in {Absent, <<>>, V_FechaCanon},
        c \in {Absent, NoneV, V_Total}, d \in {Absent, <<>>, V_Acme},
        r \in {Absent, V_Rut}, e \in {Absent, NumV, NumLowV, V_Alta}}

\* analyses: every quality the scorer tells apart, a quality that is no
\* string, and no quality at all
ScoreAnalyses ==
    {PyDict(Present([type |-> S_Boleta, quality |-> q])) :
        q \in {Absent, S_buena, S_media, S_mala, S_unknown, NoneV, ListV}}

ScoreCall ==
    /\ fn = "_generate_confidence_metadata"
    /\ ~ret.done
    /\ ret' = Returns(GenerateConfidenceMetadata(arg.data, arg.an))
    /\ UNCHANGED <<fn, arg, peer>>
    /\ UNCHANGED pipelineVars
    /\ UNCHANGED parseVars

InitScore ==
    /\ client = TRUE
    /\ image = "plain"
    /\ PipelineIdle("idle")
    /\ ParseIdle
    /\ peer = NoPeer
    /\ fn = "_generate_confidence_metadata"
    /\ arg \in [data : ScoreRecords \cup {PyInt}, an : ScoreAnalyses \cup {PyNone}]
    /\ ret = NoRet

NextScore == ScoreCall

SpecScore == InitScore /\ [][NextScore]_vars

----------------------------------------------------------------------------
(* Direct calls of _detect_missing_important_fields. *)

\* records with string or null values under canonical keys and name variants
DetectRecords ==
    {PyDict(Present(
        [email |-> a, correo |-> b, telefono |-> c, fono |-> d, direccion |-> e,
         domicilio |-> f, ciudad |-> g, comuna |-> h, codigo_postal |-> i, zip |-> j])) :
        a \in {Absent, <<>>, V_Blank, V_Mail, NoneV}, b \in {Absent, V_Blank, V_Mail, NoneV},
        c \in {Absent, <<>>, V_Fono}, d \in {Absent, V_Fono},
        e \in {Absent, V_Calle}, f \in {Absent, V_Calle},
        g \in {Absent, V_Ciudad}, h \in {Absent, V_Blank},
        i \in {Absent, V_Zip}, j \in {Absent, V_Zip}}

DetectCall ==
    /\ fn = "_detect_missing_important_fields"
    /\ ~ret.done
    /\ ret' = Returns(DetectMissingImportantFields(arg))
    /\ UNCHANGED <<fn, arg, peer>>
    /\ UNCHANGED pipelineVars
    /\ UNCHANGED parseVars

InitDetect ==
    /\ client = TRUE
    /\ image = "plain"
    /\ PipelineIdle("idle")
    /\ ParseIdle
    /\ peer = NoPeer
    /\ fn = "_detect_missing_important_fields"
    /\ arg \in DetectRecords
    /\ ret = NoRet

NextDetect == DetectCall

SpecDetect == InitDetect /\ [][NextDetect]_vars

----------------------------------------------------------------------------
(* Two invocations of process_document on one DocumentAgent, their stages    *)
(* interleaved.  The first invocation is the one above; the second keeps its *)
(* locals in peer.  self.client is the one attribute of the instance.        *)

\* process_document run alone: its result for an image and the replies rp
RunAlone(cl, img, rp) ==
    IF ~cl THEN GetFallbackData
    ELSE LET an == AnalyzeDocumentType(img, rp["classify"])
             ex == ExtractDocumentData(img, an, rp["extract"])
             vd == ValidateAndRefine(ex, an, rp["validate"])
             ms == DetectMissingImportantFields(vd)
             rf == IF NeedsRefinement(ms)
                   THEN CombineRefinement(vd, RefineWithSpecificInstructions(img, rp["refine"]))
                   ELSE vd
             mt == GenerateConfidenceMetadata(rf, an)
         IN ExceptHandler(CombineResult(rf, mt, an)).val

\* the replies the model gives while two invocations run
SharedReplies(st) ==
    CASE st = "classify" -> {TextReply(CT_Full), TextReply(T_Num)}
      [] st = "extract" -> {TextReply(ET_Raw), TextReply(ET_Full)}
      [] st = "validate" -> {Raise, TextReply(VT_Partial)}
      [] st = "refine" -> {Raise, TextReply(RT_Contacts)}

\* the first invocation's call received one of them
SharedReply == \A st \in Stages : replies'[st] \in SharedReplies(st) \cup {NoReply}

PeerEntry(img) ==
    [pc |-> "start", image |-> img, analysis |-> Unset, extracted |-> Unset,
     validated |-> Unset, missing |-> NotDetected, refined |-> Unset, meta |-> Unset,
     result |-> Unset, replies |-> NoReplies]

PeerUnchanged ==
    /\ UNCHANGED pipelineVars
    /\ UNCHANGED parseVars
    /\ UNCHANGED unitVars

\* lines 47-48
PeerStart ==
    /\ peer.pc = "start"
    /\ peer' = IF client THEN [peer EXCEPT !.pc = "classify"]
               ELSE [peer EXCEPT !.pc = "done", !.result = GetFallbackData]
    /\ PeerUnchanged

\* a classify step that also leaves its analysis where the first invocation reads it
PeerClassifySharesAnalysis ==
    /\ peer.pc = "classify"
    /\ \E r \in Replies(AnalyzeCalls(peer.image), SharedReplies("classify")) :
          /\ peer' = [peer EXCEPT !.pc = "extract",
                                  !.analysis = AnalyzeDocumentType(peer.image, r),
                                  !.replies["classify"] = r]
          /\ analysis' = AnalyzeDocumentType(peer.image, r)
    /\ UNCHANGED <<pc, client, image, extracted, validated, missing, refined, meta,
                   result, caught, replies, calls, trace>>
    /\ UNCHANGED parseVars
    /\ UNCHANGED unitVars

\* line 52
PeerClassify ==
    /\ peer.pc = "classify"
    /\ \E r \in Replies(AnalyzeCalls(peer.image), SharedReplies("classify")) :
          peer' = [peer EXCEPT !.pc = "extract",
                               !.analysis = AnalyzeDocumentType(peer.image, r),
                               !.replies["classify"] = r]
    /\ PeerUnchanged

\* line 55
PeerExtract ==
    /\ peer.pc = "extract"
    /\ \E r \in Replies(ExtractCalls(peer.image, peer.analysis), SharedReplies("extract")) :
          peer' = [peer EXCEPT !.pc = "validate",
                               !.extracted = ExtractDocumentData(peer.image, peer.analysis, r),
                               !.replies["extract"] = r]
    /\ PeerUnchanged

\* line 58
PeerValidate ==
    /\ peer.pc = "validate"
    /\ \E r \in Replies(ValidateCalls(peer.extracted, peer.analysis), SharedReplies("validate")) :
          peer' = [peer EXCEPT !.pc = "detect",
                               !.validated = ValidateAndRefine(peer.extracted, peer.analysis, r),
                               !.replies["validate"] = r]
    /\ PeerUnchanged

\* line 61, _iterative_refinement up to line 262
PeerDetectMissing ==
    /\ peer.pc = "detect"
    /\ LET ms == DetectMissingImportantFields(peer.validated) IN
       peer' = IF NeedsRefinement(ms)
               THEN [peer EXCEPT !.pc = "refine", !.missing = ms]
               ELSE [peer EXCEPT !.pc = "score", !.missing = ms, !.refined = peer.validated]
    /\ PeerUnchanged

\* _iterative_refinement from line 267 on
PeerRefine ==
    /\ peer.pc = "refine"
    /\ \E r \in Replies(RefineCalls(peer.image), SharedReplies("refine")) :
          peer' = [peer EXCEPT !.pc = "score",
                               !.refined = CombineRefinement(peer.validated,
                                              RefineWithSpecificInstructions(peer.image, r)),
                               !.replies["refine"] = r]
    /\ PeerUnchanged

\* line 64
PeerScore ==
    /\ peer.pc = "score"
    /\ peer' = [peer EXCEPT !.pc = "combine",
                            !.meta = GenerateConfidenceMetadata(peer.refined, peer.analysis)]
    /\ PeerUnchanged

\* lines 67-83
PeerCombine ==
    /\ peer.pc = "combine"
    /\ LET o == ExceptHandler(CombineResult(peer.refined, peer.meta, peer.analysis)) IN
       peer' = [peer EXCEPT !.pc = IF o.raised THEN "raised" ELSE "done", !.result = o.val]
    /\ PeerUnchanged

InitShared ==
    /\ client \in BOOLEAN
    /\ image \in Images
    /\ PipelineIdle("start")
    /\ ParseIdle
    /\ UnitIdle
    /\ peer \in {PeerEntry(img) : img \in Images}

NextShared ==
    \/ Start
    \/ Classify /\ SharedReply
    \/ Extract /\ SharedReply
    \/ Validate /\ SharedReply
    \/ DetectMissing
    \/ Refine /\ SharedReply
    \/ Score
    \/ Combine
    \/ PeerStart
    \/ PeerClassify
    \/ PeerExtract
    \/ PeerValidate
    \/ PeerDetectMissing
    \/ PeerRefine
    \/ PeerScore
    \/ PeerCombine

SpecShared == InitShared /\ [][NextShared]_vars

----------------------------------------------------------------------------
(* Direct calls of the normalizers of OpenAIService. *)

Days == {<<"1","5">>, <<"5">>}
Months == {<<"1","0">>, <<"3">>}
Years == {<<"2","0","2","4">>}
Seps == {"/", "-"}

DayFirstDates == {d \o <<a>> \o m \o <<b>> \o y : d \in Days, a \in Seps, m \in Months, b \in Seps, y \in Years}
YearFirstDates == {y \o <<a>> \o m \o <<b>> \o d : d \in Days, a \in Seps, m \in Months, b \in Seps, y \in Years}

V_NotADate == <<"n","o","t","-","a","-","d","a","t","e">>

\* dates in the four forms, alone or inside other text, and texts without a date
DateInputs ==
    {<<>>, V_NotADate, <<"1","5","/","1","0","/","2","4">>,
     <<"2","0","2","4",".","1","0",".","1","5">>}
    \cup {p \o body \o q : body \in DayFirstDates \cup YearFirstDates,
                            p \in {<<>>, <<"e","l"," ">>, <<"1">>},
                            q \in {<<>>, <<" ","h">>, <<"5">>}}

RutBodies == {<<"7","6">>, <<"7">>}
Checksums == {"7", "k", "K"}
V_RutLabel == <<"R","U","T",":"," ">>

\* national IDs with and without dots and hyphen, alone or inside other text,
\* and texts without an ID
RutInputs ==
    {<<>>, <<"k","k">>, <<"7","6","-","1","2","3","-","4","5","6","-","7">>,
     <<"1","2","3","4","5">>}
    \cup {p \o a \o d1 \o <<"1","2","3">> \o d2 \o <<"4","5","6">> \o h \o <<c>> \o q :
            a \in RutBodies, d1 \in {<<>>, <<".">>}, d2 \in {<<>>, <<".">>},
            h \in {<<>>, <<"-">>}, c \in Checksums,
            p \in {<<>>, V_RutLabel, <<"1">>}, q \in {<<>>, <<"7">>}}

AmountChars == {"1", ".", "$"}

\* amounts: every text of up to three of the characters 1 . $, and some more
AmountInputs ==
    UNION {[1..n -> AmountChars] : n \in 0..MaxAmountLen}
    \cup {<<"a","b","c">>, <<"$","1","5",".","0","0","0"," ","C","L","P">>,
          V_Total, V_TotalRaw, <<"$","1",".","5","0","0",".","0","0","0">>,
          <<"-","5","0","0">>, <<"1",",","5">>}

\* records with string or null values
CleanRecords ==
    {Present([fecha |-> a, rut |-> b, total |-> c, nombre |-> d]) :
        a \in {Absent, NoneV, <<>>, V_Blank, V_FechaIso, V_FechaCanon},
        b \in {Absent, V_RutRaw, V_Rut, <<"k","k">>},
        c \in {Absent, NoneV, V_TotalRaw, V_Total, <<"a","b","c">>},
        d \in {Absent, V_Acme, <<" ">> \o V_Acme, V_Blank, <<"n","u","l","l">>, NoneV}}

DirectCall(name, val) ==
    /\ fn = name
    /\ ~ret.done
    /\ ret' = Returns(val)
    /\ UNCHANGED <<fn, arg, peer>>
    /\ UNCHANGED pipelineVars
    /\ UNCHANGED parseVars

DateCall == DirectCall("_validate_date_format", ValidateDateFormat(arg))
RutCall == DirectCall("_validate_rut_format", ValidateRutFormat(arg))
AmountCall == DirectCall("_clean_amount", CleanAmount(arg))
CleanCall == DirectCall("_clean_extracted_data", CleanExtractedData(arg))

InitNormalize ==
    /\ client = TRUE
    /\ image = "plain"
    /\ PipelineIdle("idle")
    /\ ParseIdle
    /\ peer = NoPeer
    /\ ret = NoRet
    /\ \/ fn = "_validate_date_format" /\ arg \in DateInputs
       \/ fn = "_validate_rut_format" /\ arg \in RutInputs
       \/ fn = "_clean_amount" /\ arg \in AmountInputs
       \/ fn = "_clean_extracted_data" /\ arg \in CleanRecords

NextNormalize == DateCall \/ RutCall \/ AmountCall \/ CleanCall

SpecNormalize == InitNormalize /\ [][NextNormalize]_vars

(* The endpoint /api/validate-extracted-data. *)

\* a request body: the keys it holds, extractedData (a mapping of field
\* values) and confidence; a confidence is an integer, a non-numeric text or
\* null
ConfInt(n) == [t |-> "int", n |-> n]
ConfText == [t |-> "str", n |-> 0]
ConfNone == [t |-> "none", n |-> 0]

\* int(confidence_raw), 0 on ValueError or TypeError
IntOrZero(c) == IF c.t = "int" THEN c.n ELSE 0

MinConfidence == 70
MaxConfidence == 100

RequiredFields ==
    <<"referencia", "tipoDocumento", "numeroDocumento",
      "fecha", "moneda", "nombre", "rut", "total", "detalle">>

FormatFields == <<"fecha", "rut", "total">>

AllDigits(s, from, to) == \A i \in from..to : IsDigit(s[i])

\* re.match(r'^\d{1,2}/\d{1,2}/\d{4}$', date_str)
IsValidDateFormat(s) ==
    \E a \in 1..2 : \E b \in 1..2 :
        /\ Len(s) = a + b + 6
        /\ AllDigits(s, 1, a)
        /\ s[a + 1] = "/"
        /\ AllDigits(s, a + 2, a + b + 1)
        /\ s[a + b + 2] = "/"
        /\ AllDigits(s, a + b + 3, a + b + 6)

\* _is_valid_rut_format with any letter or digit as checksum
IsValidRutFormatAnyLetter(s) ==
    \E a \in 1..2 :
        /\ Len(s) = a + 10
        /\ AllDigits(s, 1, a)
        /\ s[a + 1] = "."
        /\ AllDigits(s, a + 2, a + 4)
        /\ s[a + 5] = "."
        /\ AllDigits(s, a + 6, a + 8)
        /\ s[a + 9] = "-"
        /\ (IsDigit(s[a + 10]) \/ s[a + 10] \in {"k", "K", "A", "z"})

\* re.match(r'^\d{1,2}\.\d{3}\.\d{3}-[\dkK]$', rut_str)
IsValidRutFormat(s) ==
    \E a \in 1..2 :
        /\ Len(s) = a + 10
        /\ AllDigits(s, 1, a)
        /\ s[a + 1] = "."
        /\ AllDigits(s, a + 2, a + 4)
        /\ s[a + 5] = "."
        /\ AllDigits(s, a + 6, a + 8)
        /\ s[a + 9] = "-"
        /\ (IsDigit(s[a + 10]) \/ s[a + 10] \in {"k", "K"})

\* float(amount_str) succeeds: a number, or a text that is, between blanks
\* and after an optional sign, digits with at most one point and at least one
\* digit (the characters of the model's texts write no exponent, inf or nan)
IsValidAmount(v) ==
    \/ IsNum(v)
    \/ /\ IsStr(v)
       /\ LET t == Strip(v)
              u == IF t # <<>> /\ t[1] \in {"-", "+"} THEN Tail(t) ELSE t
          IN /\ \A i \in 1..Len(u) : IsAmountChar(u[i])
             /\ ParsesAsFloat(u)

\* whether the format check of a present field fails; re.match raises
\* TypeError on a value that is no string
FormatFails(field, v) ==
    IF field = "fecha" THEN ~IsValidDateFormat(v)
    ELSE IF field = "rut" THEN ~IsValidRutFormat(v)
    ELSE ~IsValidAmount(v)

FormatRaises(data) ==
    \E f \in {"fecha", "rut"} :
        FTruthy(Get(data, f, NoneV)) /\ ~IsStr(data[f])

\* _validate_document_data clearing is_valid on a format warning as well
ValidateDocumentDataStrict(data) ==
    LET absent(f) == ~FTruthy(Get(data, f, NoneV))
        errors == SelectSeq(RequiredFields, absent)
        warned(f) == ~absent(f) /\ FormatFails(f, data[f])
        warnings == SelectSeq(FormatFields, warned)
    IN [is_valid |-> errors = <<>> /\ warnings = <<>>,
        errors |-> errors,
        warnings |-> warnings,
        field_validations |->
            [i \in 1..Len(RequiredFields) |->
                LET f == RequiredFields[i]
                IN ~absent(f) /\ ~(f \in {"fecha", "rut", "total"} /\ warned(f))]]

ValidateDocumentData(data) ==
    LET absent(f) == ~FTruthy(Get(data, f, NoneV))
        errors == SelectSeq(RequiredFields, absent)
        warned(f) == ~absent(f) /\ FormatFails(f, data[f])
        warnings == SelectSeq(FormatFields, warned)
    IN [is_valid |-> errors = <<>>,
        errors |-> errors,
        warnings |-> warnings,
        field_validations |->
            [i \in 1..Len(RequiredFields) |->
                LET f == RequiredFields[i]
                IN ~absent(f) /\ ~(f \in {"fecha", "rut", "total"} /\ warned(f))]]

GenerateRecommendations(validation_results, confidence) ==
    LET low == IF confidence < MinConfidence THEN <<"low confidence">> ELSE <<>>
        errs == IF validation_results.errors # <<>>
                THEN <<"missing fields">> ELSE <<>>
        warns == IF validation_results.warnings # <<>>
                 THEN <<"formats">> ELSE <<>>
        recommendations == low \o errs \o warns
    IN IF recommendations = <<>> THEN <<"ready">> ELSE recommendations

MeetsThresholdStrictly(confidence) == confidence > MinConfidence

MeetsThreshold(confidence) == confidence >= MinConfidence

HttpError(code) == [status |-> code, success |-> FALSE]

ValidateExtractedData(body) ==
    LET extracted_data == IF "extractedData" \in body.keys
                          THEN body.extractedData ELSE <<>>
        confidence == IF "confidence" \in body.keys
                      THEN IntOrZero(body.confidence) ELSE 0
        validation_results == ValidateDocumentData(extracted_data)
    IN IF ~(0 <= confidence /\ confidence <= MaxConfidence) THEN HttpError(400)
       ELSE IF DOMAIN extracted_data = {} THEN HttpError(400)
       ELSE IF FormatRaises(extracted_data) THEN HttpError(500)
       ELSE [status |-> 200,
             success |-> TRUE,
             data |-> [isValid |-> /\ validation_results.is_valid
                                   /\ MeetsThreshold(confidence),
                       confidence |-> confidence,
                       validationResults |-> validation_results,
                       recommendations |->
                           GenerateRecommendations(validation_results, confidence)]]

V_FechaCorta == <<"5","/","3","/","2","0","2","4">>
V_RutCorto == <<"7",".","1","2","3",".","4","5","6","-","K">>

ValidateRecords ==
    {Present([referencia |-> a, tipoDocumento |-> b, numeroDocumento |-> c,
              fecha |-> d, moneda |-> e, nombre |-> f, rut |-> g, total |-> h,
              detalle |-> i]) :
        a \in {Absent, V_Folio},
        b \in {<<>>, S_Boleta},
        c \in {NoneV, V_Zip},
        d \in {Absent, V_FechaCanon, V_FechaCorta, V_FechaIso, NumV},
        e \in {Absent, S_CLP},
        f \in {V_Blank, V_Acme},
        g \in {<<>>, V_Rut, V_RutCorto, V_RutRaw},
        h \in {Absent, V_Total, V_TotalRaw, NumV},
        i \in {Absent, V_Otro}}

Confidences ==
    {ConfInt(n) : n \in {0 - 1, 0, MinConfidence - 1, MinConfidence, 85,
                         MaxConfidence, MaxConfidence + 1}}
        \cup {ConfText, ConfNone}

ValidateBodies ==
    {[keys |-> {"extractedData", "confidence"}, extractedData |-> d, confidence |-> c] :
        d \in ValidateRecords, c \in Confidences}
        \cup {[keys |-> {"extractedData"}, extractedData |-> d, confidence |-> ConfNone] :
                d \in ValidateRecords}
        \cup {[keys |-> {"confidence"}, extractedData |-> <<>>, confidence |-> c] :
                c \in Confidences}

ValidateCall ==
    DirectCall("validate_extracted_data", ValidateExtractedData(arg))

InitValidate ==
    /\ client = TRUE
    /\ image = "plain"
    /\ PipelineIdle("idle")
    /\ ParseIdle
    /\ peer = NoPeer
    /\ fn = "validate_extracted_data"
    /\ arg \in ValidateBodies
    /\ ret = NoRet

NextValidate == ValidateCall

SpecValidate == InitValidate /\ [][NextValidate]_vars

(* The endpoint /api/process-document and OpenAIAssistant. *)

\* longest image, in characters after an optional data:image prefix, and
\* longest reply text, in tokens, among those enumerated
MaxImageLen == 4
MaxReplyLen == 2

\* field values of the fallback data that are no strings: the number 0 and the
\* mapping processing_metadata
ZeroV == <<"<0>">>
MetaV == <<"<dict>">>

DataPrefix == <<"d","a","t","a",":","i","m","a","g","e">>

\* characters of the base64 alphabet among those of the images
IsB64Char(c) == c \in {"A", "d", "a", "t", "i", "m", "g", "e"}

\* binascii.a2b_base64 in its lenient mode, as base64.b64decode calls it:
\* characters outside the alphabet are skipped, padding that completes a quad
\* ends the data, and the data must end on a full quad; FALSE stands for
\* binascii.Error
RECURSIVE B64Scan(_, _, _, _)
B64Scan(s, i, quad, pads) ==
    IF i > Len(s) THEN quad = 0
    ELSE IF s[i] = "=" THEN
        IF quad >= 2 /\ quad + pads + 1 >= 4 THEN TRUE
        ELSE B64Scan(s, i + 1, quad, IF quad >= 2 THEN pads + 1 ELSE pads)
    ELSE IF IsB64Char(s[i]) THEN B64Scan(s, i + 1, (quad + 1) % 4, 0)
    ELSE B64Scan(s, i + 1, quad, pads)

B64Decodes(s) == B64Scan(s, 1, 0, 0)

Commas(s) == {i \in 1..Len(s) : s[i] = ","}

\* request.image.split(',')[-1] if ',' in request.image else request.image
LastPart(s) ==
    IF Commas(s) = {} THEN s
    ELSE LET i == CHOOSE a \in Commas(s) : \A b \in Commas(s) : b <= a
         IN SubSeq(s, i + 1, Len(s))

StartsWith(s, p) == Len(s) >= Len(p) /\ SubSeq(s, 1, Len(p)) = p

\* _clean_base64 raises IndexError: split(',')[1] of a data:image string
\* without a comma
AssistantCleanBase64Raises(s) == StartsWith(s, DataPrefix) /\ Commas(s) = {}

\* _get_fallback_data
AssistantFallback ==
    PyDict([referencia |-> <<>>, tipoDocumento |-> S_Boleta, numeroDocumento |-> <<>>,
            fecha |-> <<>>, moneda |-> S_CLP, nombre |-> <<>>, rut |-> <<>>,
            total |-> <<>>, detalle |-> <<>>, impuestos |-> <<>>,
            confidence |-> ZeroV, processing_notes |-> ListV,
            processing_metadata |-> MetaV])

\* OpenAIAssistant._parse_json_response
AssistantParseJsonResponse(s) ==
    LET b == BraceMatch(s) IN
    IF b = <<0, 0>> THEN EmptyDict
    ELSE LET r == JsonLoads(SubSeq(s, b[1], b[2])) IN
         IF r.ok THEN r.val ELSE EmptyDict

\* whether the body of the try block of process_document raises
AssistantTryRaises(image_base64, outcome) ==
    \/ AssistantCleanBase64Raises(image_base64)
    \/ outcome \in {Raise, NoContent}

\* OpenAIAssistant.process_document with the handler `except Exception` left out
AssistantProcessDocumentUncaught(cl, image_base64, outcome) ==
    IF ~cl THEN [raised |-> FALSE, val |-> AssistantFallback]
    ELSE IF AssistantTryRaises(image_base64, outcome)
    THEN [raised |-> TRUE, val |-> EmptyDict]
    ELSE LET extracted_data == AssistantParseJsonResponse(outcome.text) IN
         IF Truthy(extracted_data) THEN [raised |-> FALSE, val |-> extracted_data]
         ELSE [raised |-> FALSE, val |-> AssistantFallback]

\* OpenAIAssistant.process_document
AssistantProcessDocument(cl, image_base64, outcome) ==
    IF ~cl THEN [raised |-> FALSE, val |-> AssistantFallback]
    ELSE IF AssistantTryRaises(image_base64, outcome)
    THEN [raised |-> FALSE, val |-> AssistantFallback]
    ELSE LET extracted_data == AssistantParseJsonResponse(outcome.text) IN
         IF Truthy(extracted_data) THEN [raised |-> FALSE, val |-> extracted_data]
         ELSE [raised |-> FALSE, val |-> AssistantFallback]

\* process_document of routes.py; the HTTPException of status 400 raised in
\* the try block is no ValueError and reaches `except Exception`, which
\* raises the HTTPException of status 500
ProcessDocument(request, cl, outcome) ==
    IF request.image = <<>> THEN HttpError(500)
    ELSE IF ~B64Decodes(LastPart(request.image)) THEN HttpError(500)
    ELSE LET r == AssistantProcessDocument(cl, request.image, outcome) IN
         IF r.raised THEN HttpError(500)
         ELSE [status |-> 200,
               success |-> TRUE,
               data |-> Merge(r.val.m, [expenseId |-> request.expenseId,
                                        userData |-> request.userData])]

ImageChars == {"A", "=", ","}

Payloads == UNION {[1..n -> ImageChars] : n \in 0..MaxImageLen}

RequestImages ==
    Payloads \cup {DataPrefix \o s : s \in Payloads}
        \cup {DataPrefix \o <<",">> \o s : s \in Payloads}

ReplyAlphabet == {LB, RB, KV("expenseId", V_Otro), W}

ReplyTexts ==
    UNION {[1..n -> ReplyAlphabet] : n \in 0..MaxReplyLen}
    \cup {<<LB, KV("expenseId", V_Otro), RB>>,
          <<W, LB, KV("total", V_Total), KV("userData", V_Acme), RB, NL, W>>,
          <<LB, KV("total", V_Total), RB, RB>>,
          <<LB, LB, RB>>}

Outcomes == {Raise, NoContent} \cup {TextReply(s) : s \in ReplyTexts}

ProcessRequests ==
    {[image |-> i, expenseId |-> e, userData |-> [userId |-> V_Folio, empresa |-> V_Acme]] :
        i \in RequestImages, e \in {<<>>, V_Folio}}

ProcessCall ==
    DirectCall("process_document",
               ProcessDocument(arg.request, client, arg.outcome))

InitProcess ==
    /\ client \in BOOLEAN
    /\ image = "plain"
    /\ PipelineIdle("idle")
    /\ ParseIdle
    /\ peer = NoPeer
    /\ fn = "process_document"
    /\ arg \in {[request |-> r, outcome |-> o] : r \in ProcessRequests, o \in Outcomes}
    /\ ret = NoRet

NextProcess == ProcessCall

SpecProcess == InitProcess /\ [][NextProcess]_vars

(* Direct calls of the format validators of routes.py, on strings. *)

\* dates as the normalizer's inputs, and dates with one more or one less digit
FormatDates ==
    DateInputs
    \cup {V_FechaCorta, <<"1","5","/","1","0","/","2","0","2","4","5">>,
          <<"1","1","5","/","1","0","/","2","0","2","4">>,
          <<"1","5","/","/","2","0","2","4">>, <<"/","1","0","/","2","0","2","4">>}

FormatChecksums == {"7", "k", "K", "A", "z", "-"}

\* national IDs as the normalizer's inputs, and dotted IDs with every kind of
\* checksum character and one more or one less digit
FormatRuts ==
    RutInputs
    \cup {a \o <<".","1","2","3",".","4","5","6","-", c>> :
            a \in RutBodies \cup {<<>>, <<"1","7","6">>}, c \in FormatChecksums}
    \cup {<<"7","6",".","1","2","3",".","4","5","-","7">>,
          <<"7","6",".","1","2","3",".","4","5","6","-">>,
          <<"7","6",".","1","2","3",".","4","5","6","7">>}

\* amounts as the normalizer's inputs, signed and between blanks
FormatAmounts ==
    AmountInputs
    \cup {<<" ","1","5"," ">>, <<"+","5">>, <<"-",".","5">>, <<"-"," ","5">>,
          <<"+","-","5">>, <<"-">>, <<" ">>, <<"5","-">>}

FormatDateCall == DirectCall("_is_valid_date_format", IsValidDateFormat(arg))
FormatRutCall == DirectCall("_is_valid_rut_format", IsValidRutFormat(arg))
FormatAmountCall == DirectCall("_is_valid_amount", IsValidAmount(arg))

InitFormat ==
    /\ client = TRUE
    /\ image = "plain"
    /\ PipelineIdle("idle")
    /\ ParseIdle
    /\ peer = NoPeer
    /\ ret = NoRet
    /\ \/ fn = "_is_valid_date_format" /\ arg \in FormatDates
       \/ fn = "_is_valid_rut_format" /\ arg \in FormatRuts
       \/ fn = "_is_valid_amount" /\ arg \in FormatAmounts

NextFormat == FormatDateCall \/ FormatRutCall \/ FormatAmountCall

SpecFormat == InitFormat /\ [][NextFormat]_vars

(* Two invocations of DocumentAgent.process_document that differ in the     *)
(* context argument only.                                                    *)

\* _get_fallback_data adding the members of the context to the record
GetFallbackDataWithContext(context) ==
    IF IsDict(context) THEN PyDict(Merge(GetFallbackData.m, context.m))
    ELSE GetFallbackData

\* _get_fallback_data(context): the parameter is not read
GetFallbackDataFor(context) == GetFallbackData

\* lines 79-83: the assembled result, or the fallback when assembling raised
ReturnResult(context, built) ==
    IF built.exc THEN GetFallbackDataFor(context) ELSE built.val

\* lines 63-77: the confidence metadata and the result of the refined record
ScoreAndReturn(context, an, rf) ==
    ReturnResult(context, CombineResult(rf, GenerateConfidenceMetadata(rf, an), an))

\* lines 60-61: the refinement of the validated record
RefineAndScore(img, rp, context, an, vd) ==
    ScoreAndReturn(context, an,
        IF NeedsRefinement(DetectMissingImportantFields(vd))
        THEN CombineRefinement(vd, RefineWithSpecificInstructions(img, rp["refine"]))
        ELSE vd)

\* lines 53-58: extraction and validation under the analysis
ExtractAndValidate(img, rp, context, an) ==
    RefineAndScore(img, rp, context, an,
        ValidateAndRefine(ExtractDocumentData(img, an, rp["extract"]), an, rp["validate"]))

\* process_document(image_base64, context) for the replies rp of the model
ProcessDocumentWith(cl, img, rp, context) ==
    IF ~cl THEN GetFallbackDataFor(context)
    ELSE ExtractAndValidate(img, rp, context, AnalyzeDocumentType(img, rp["classify"]))

\* context objects: none, and mappings of caller-supplied identifiers
Contexts ==
    {PyNone, PyDict([expenseId |-> V_Folio]),
     PyDict([expenseId |-> V_Otro, userId |-> V_Acme, empresa |-> V_Acme])}

ContextReplies ==
    {[classify |-> a, extract |-> b, validate |-> c, refine |-> d] :
        a \in SharedReplies("classify"), b \in SharedReplies("extract"),
        c \in SharedReplies("validate"), d \in SharedReplies("refine")}

\* the first invocation
ContextCall ==
    DirectCall("process_document(context)",
               ProcessDocumentWith(client, arg.image, arg.replies, arg.context))

\* the second invocation: same agent, image and replies, its own context
PeerContextCall ==
    /\ fn = "process_document(context)"
    /\ peer.pc = "start"
    /\ peer' = [peer EXCEPT !.pc = "done",
                            !.result = ProcessDocumentWith(client, arg.image, arg.replies,
                                                           peer.context)]
    /\ PeerUnchanged

InitContext ==
    /\ client \in BOOLEAN
    /\ image = "plain"
    /\ PipelineIdle("idle")
    /\ ParseIdle
    /\ fn = "process_document(context)"
    /\ arg \in [image : Images, replies : ContextReplies, context : Contexts]
    /\ peer \in [pc : {"start"}, context : Contexts, result : {Unset}]
    /\ peer.context # arg.context
    /\ ret = NoRet

NextContext == ContextCall \/ PeerContextCall

SpecContext == InitContext /\ [][NextContext]_vars

\* the statements of a stage run in turn: a call of the model service returns
\* a reply or raises
FairSpec == Spec /\ WF_vars(Next)

----------------------------------------------------------------------------
(* Properties. *)

AfterClassify == client /\ pc \in {"extract", "validate", "detect", "refine", "score", "combine", "done"}
AfterValidate == client /\ pc \in {"detect", "refine", "score", "combine", "done"}
AfterRefinement == client /\ pc \in {"score", "combine", "done"}
Returned == pc = "done"

Count(seq, x) == Cardinality({i \in 1..Len(seq) : seq[i] = x})
Ran(st) == \E i \in 1..Len(trace) : trace[i] = st

\* r is the static record of _get_fallback_data
IsFallback(r) ==
    /\ IsDict(r)
    /\ DOMAIN r.m = DOMAIN GetFallbackData.m
    /\ \A k \in DOMAIN r.m : r.m[k] = GetFallbackData.m[k]

\* C1: for every image and every outcome of every stage's model call,
\* process_document never raises and ends in Done with a record as its result.
C1_AlwaysDone == [](pc # "raised") /\ <>(Returned /\ IsDict(result))

\* C1 witness: an invocation that returned although building the result raised
\* (the classifier's reply was the JSON number 42).
C1_Witness ==
    Returned /\ client /\ caught /\ replies["classify"] = TextReply(T_Num) /\ IsDict(result)

\* C2: without a client no stage runs and no model call is made, and the
\* result is the static fallback record: confidence 0, tipoDocumento "Boleta",
\* the agent-unavailable note.
C2_UnavailableFallback ==
    ~client =>
        /\ calls = <<>>
        /\ trace = <<>>
        /\ replies = NoReplies
        /\ pc \in {"start", "done"}
        /\ Returned =>
              /\ IsFallback(result)
              /\ result.m["confidence"] = 0
              /\ result.m["tipoDocumento"] = S_Boleta
              /\ result.m["processing_notes"] = <<NoteUnavailable>>

\* C2 witness: an invocation without a client has returned.
C2_Witness == Returned /\ ~client /\ IsDict(result) /\ result.m["confidence"] = 0

\* C3 (as claimed): with a client, process_document never returns the static
\* agent-unavailable record: every stage up to Score runs and the result is
\* built from their values.
C3_OnlyClientShortCircuits ==
    (client /\ Returned) => ~IsFallback(result) /\ ~caught /\ Ran("score")

\* C4 (amended): the refinement runs exactly when the detector returned a
\* non-empty list; it then makes at most one model call, and exactly one unless
\* stripping the image's data-URL prefix raises; when it does not run, no
\* refinement call is made and the validated record is returned unchanged.
C4_RefineIffMissing ==
    AfterRefinement =>
        /\ Ran("refine") <=> (~missing.raised /\ missing.list # <<>>)
        /\ Ran("refine") => Count(trace, "refine") = 1
        /\ Ran("refine") => Count(calls, "refine") = (IF image = "badprefix" THEN 0 ELSE 1)
        /\ ~Ran("refine") => Count(calls, "refine") = 0 /\ refined = validated

\* C4 witness: the detector listed four fields (email was found under its
\* variant correo), the refinement ran and made its one call.
C4_Witness ==
    /\ AfterRefinement
    /\ missing.list = <<"telefono", "direccion", "ciudad", "codigo_postal">>
    /\ Ran("refine")
    /\ Count(calls, "refine") = 1
    /\ refined # validated

\* C4 (as claimed): whenever the refinement runs it makes exactly one model call.
C4_ExactlyOneCall ==
    AfterRefinement =>
        /\ Ran("refine") <=> (~missing.raised /\ missing.list # <<>>)
        /\ Ran("refine") => Count(calls, "refine") = 1
        /\ ~Ran("refine") => Count(calls, "refine") = 0 /\ refined = validated

RequiredKeys ==
    {"referencia", "tipoDocumento", "numeroDocumento", "fecha", "moneda", "nombre",
     "rut", "total", "detalle"}

\* the extractor's value is empty or carries an error flag
EmptyOrErrorFlagged(ex) ==
    \/ ~Truthy(ex)
    \/ IsDict(ex) /\ FTruthy(Get(ex.m, "error", NoneV))

\* C6 (as claimed): for an empty or error-flagged extraction the validator makes
\* no model call and returns the blank default record: the nine required keys,
\* tipoDocumento the classifier's type, moneda "CLP", every other field blank.
C6_BlankDefault ==
    (AfterValidate /\ EmptyOrErrorFlagged(extracted)) =>
        /\ Count(calls, "validate") = 0
        /\ IsDict(validated)
        /\ RequiredKeys \subseteq DOMAIN validated.m
        /\ validated.m["moneda"] = S_CLP
        /\ \A k \in DOMAIN validated.m \ {"tipoDocumento", "moneda"} : validated.m[k] = <<>>
        /\ (IsDict(analysis) /\ "type" \in DOMAIN analysis.m) =>
              validated.m["tipoDocumento"] = analysis.m["type"]

\* the record enters the validation proper: a non-empty mapping without error flag
Validatable(ex) ==
    IsDict(ex) /\ DOMAIN ex.m # {} /\ ~FTruthy(Get(ex.m, "error", NoneV))

C8_DefaultOnFailure ==
    (AfterClassify /\ replies["classify"] \in {Raise, NoContent, TextReply(T_Prose)}) =>
        analysis = DefaultAnalysis

\* C9 (as claimed): _parse_json_response returns a mapping and never raises.
C9_ReturnsMapping ==
    ppc = "returned" => ~parsed.raised /\ IsDict(parsed.val)

\* the {...} spans of a text whose content is the members of an object
WellFormedSpans(s) ==
    {sp \in (1..Len(s)) \X (1..Len(s)) :
        /\ sp[1] < sp[2]
        /\ s[sp[1]].c = "lb"
        /\ s[sp[2]].c = "rb"
        /\ \A k \in (sp[1] + 1)..(sp[2] - 1) : s[k].c \in {"kv", "nl"}}

HasBraceSpan(s) ==
    \E i \in 1..Len(s) : \E j \in (i + 1)..Len(s) : s[i].c = "lb" /\ s[j].c = "rb"

\* the object written by a span
SpanObject(s, sp) == PyDict(KvMap(StripWs(SubSeq(s, sp[1] + 1, sp[2] - 1))))

\* C10 (as claimed): a text with exactly one well-formed {...} span parses to
\* the object of that span, and a text with no {...} span to the empty mapping.
C10_ExtractsTheObject ==
    ppc = "returned" =>
        /\ Cardinality(WellFormedSpans(text)) = 1 =>
              \A sp \in WellFormedSpans(text) : parsed.val = SpanObject(text, sp)
        /\ ~HasBraceSpan(text) => parsed.val = EmptyDict

ScoredFields == {"referencia", "fecha", "total", "nombre"}

\* floor(base * multiplier) clamped to [0,100], base = present / 4 * 100,
\* multiplier 1.0, 0.8, 0.6 for quality buena, media, mala and 0.8 otherwise
FormulaConfidence(d, an) ==
    LET present == Cardinality({f \in ScoredFields : f \in DOMAIN d /\ FTruthy(d[f])})
        tenths == IF "quality" \notin DOMAIN an THEN 8
                  ELSE IF an["quality"] = S_buena THEN 10
                  ELSE IF an["quality"] = S_mala THEN 6
                  ELSE 8
        v == (present * 25 * tenths) \div 10
    IN IF v > 100 THEN 100 ELSE IF v < 0 THEN 0 ELSE v

ScoreReturned == fn = "_generate_confidence_metadata" /\ ret.done

\* C11 (as claimed): for every record and analysis the scorer's confidence is
\* floor(base * multiplier) clamped to [0,100].
C11_ConfidenceFormula ==
    (ScoreReturned /\ IsDict(arg.data) /\ IsDict(arg.an)) =>
        ret.val.m["confidence"] = FormulaConfidence(arg.data.m, arg.an.m)

\* a key of d holds a non-blank value
NonBlankAt(d, k) == k \in DOMAIN d /\ IsStr(d[k]) /\ Strip(d[k]) # <<>>

\* the canonical fields, in declaration order, with no non-blank value under
\* the canonical key or any of its variants
StillMissing(d) ==
    SelectSeq(ImportantFields,
              LAMBDA f : \A i \in 1..Len(Variations(f)) : ~NonBlankAt(d, Variations(f)[i]))

DetectReturned == fn = "_detect_missing_important_fields" /\ ret.done

\* C12 (as claimed): for every record with string or null values the detector
\* returns, in declaration order, exactly the canonical fields with no non-blank
\* value under the canonical key or a variant.
C12_DetectsMissing ==
    DetectReturned => ~ret.val.raised /\ ret.val.list = StillMissing(arg.m)

\* C13: two invocations of process_document on one agent, their stages
\* interleaved in every order: each returns what it returns when run alone with
\* the replies it received, and self.client is never written.
C13_Independent ==
    /\ [](Returned => result = RunAlone(client, image, replies))
    /\ [](peer.pc # "raised")
    /\ [](peer.pc = "done" => peer.result = RunAlone(client, peer.image, peer.replies))
    /\ [][client' = client]_vars

\* C13 witness: both invocations have returned, with different replies and
\* different results, one of them after its result construction raised.
C13_Witness ==
    /\ client /\ Returned /\ peer.pc = "done"
    /\ replies["classify"] = TextReply(T_Num)
    /\ peer.replies["classify"] = TextReply(CT_Full)
    /\ peer.replies["refine"] = TextReply(RT_Contacts)
    /\ IsFallback(result)
    /\ ~IsFallback(peer.result)

\* C14: in every record process_document returns, confidence is an integer in
\* [0,100] and processing_metadata.confidence_score equals it, also when the
\* record the model replied holds a key confidence of its own.
C14_ConfidenceInRange ==
    Returned =>
        /\ IsDict(result)
        /\ result.m["confidence"] \in 0..100
        /\ result.m["processing_metadata"].confidence_score = result.m["confidence"]

\* C14 witness: the validated record carried its own confidence (95) and the
\* analysis a quality below "buena": the returned confidence is the scorer's,
\* below 100.
C14_Witness ==
    /\ Returned /\ client /\ ~caught
    /\ replies["validate"] = TextReply(VT_Scored)
    /\ "confidence" \in DOMAIN refined.m
    /\ result.m["confidence"] = meta.m["confidence"]
    /\ result.m["confidence"] \in 1..99
    /\ result.m["processing_metadata"].confidence_score = result.m["confidence"]

DateReturned == fn = "_validate_date_format" /\ ret.done

DateAs(d, m, y) == d \o <<"/">> \o m \o <<"/">> \o y

\* the text holds a date in one of the recognized patterns
HasDate(s) == DayFirstMatches(s) # {} \/ YearFirstMatches(s) # {}

\* C15 (amended): the empty input gives null; an input that is, or holds between
\* other text that is no digit, a date D/M/YYYY, D-M-YYYY, YYYY/M/D or YYYY-M-D
\* gives that date alone written day/month/year with "/"; a non-empty input
\* holding no such date is returned unchanged.
C15_DateNormalized ==
    DateReturned =>
        /\ arg = <<>> => ret.val = NoneV
        /\ \A d \in Days, m \in Months, y \in Years, a \in Seps, b \in Seps :
           \A p \in {<<>>, <<"e","l"," ">>}, q \in {<<>>, <<" ","h">>} :
              /\ arg = p \o d \o <<a>> \o m \o <<b>> \o y \o q => ret.val = DateAs(d, m, y)
              /\ arg = p \o y \o <<a>> \o m \o <<b>> \o d \o q => ret.val = DateAs(d, m, y)
        /\ (arg # <<>> /\ ~HasDate(arg)) => ret.val = arg

\* C15 witness: "2024-10-15" was given and "15/10/2024" returned.
C15_Witness == DateReturned /\ arg = V_FechaIso /\ ret.val = V_FechaCanon

\* C15 (as claimed): every input in one of the four forms gives the same date
\* as DD/MM/YYYY, and every input matching no recognized pattern is returned
\* unchanged.
C15_FormsOrUnchanged ==
    DateReturned =>
        /\ \A d \in Days, m \in Months, y \in Years, a \in Seps, b \in Seps :
              /\ arg = d \o <<a>> \o m \o <<b>> \o y => ret.val = DateAs(d, m, y)
              /\ arg = y \o <<a>> \o m \o <<b>> \o d => ret.val = DateAs(d, m, y)
        /\ ~HasDate(arg) => ret.val = arg

RutReturned == fn = "_validate_rut_format" /\ ret.done

\* XX.XXX.XXX-C with the checksum letter in upper case
RutAs(a, c) ==
    a \o <<".", "1", "2", "3", ".", "4", "5", "6", "-">> \o <<IF c = "k" THEN "K" ELSE c>>

\* the text, stripped to digits, hyphen and k/K, holds an ID
HasRut(s) == RutMatches(SelectSeq(s, IsRutChar)) # {}

\* C16 (amended): the empty input gives null; an input whose characters other
\* than digits, hyphen and k/K are dropped and whose remainder is 1-2 digits,
\* 3 digits, 3 digits, an optional hyphen and a checksum digit or k/K gives
\* XX.XXX.XXX-C with the checksum letter in upper case; a non-empty input whose
\* remainder holds no such run is returned unchanged.
C16_RutNormalized ==
    RutReturned =>
        /\ arg = <<>> => ret.val = NoneV
        /\ \A a \in RutBodies, c \in Checksums, p \in {<<>>, V_RutLabel} :
           \A d1 \in {<<>>, <<".">>}, d2 \in {<<>>, <<".">>}, h \in {<<>>, <<"-">>} :
              arg = p \o a \o d1 \o <<"1","2","3">> \o d2 \o <<"4","5","6">> \o h \o <<c>>
                 => ret.val = RutAs(a, c)
        /\ (arg # <<>> /\ ~HasRut(arg)) => ret.val = arg

\* C16 witness: "76123456-k" was given and "76.123.456-K" returned.
C16_Witness ==
    /\ RutReturned
    /\ arg = V_RutRaw
    /\ ret.val = <<"7","6",".","1","2","3",".","4","5","6","-","K">>

\* C16 (as claimed): an input whose remainder matches the pattern gives
\* XX.XXX.XXX-C with the checksum letter upper-cased, and every non-matching
\* input is returned unchanged.
C16_FormatOrUnchanged ==
    RutReturned =>
        /\ \A a \in RutBodies, c \in Checksums :
           \A d1 \in {<<>>, <<".">>}, d2 \in {<<>>, <<".">>}, h \in {<<>>, <<"-">>} :
              arg = a \o d1 \o <<"1","2","3">> \o d2 \o <<"4","5","6">> \o h \o <<c>>
                 => ret.val = RutAs(a, c)
        /\ ~HasRut(arg) => ret.val = arg

AmountReturned == fn = "_clean_amount" /\ ret.done

DigitsOf(s) == SelectSeq(s, IsDigit)
PointsOf(s) == Cardinality({i \in 1..Len(s) : s[i] = "."})

\* a text of digits with at most one decimal point, and at least one digit:
\* it parses as a finite number
IsNumberText(s) ==
    /\ \A i \in 1..Len(s) : IsDigit(s[i]) \/ s[i] = "."
    /\ PointsOf(s) <= 1
    /\ DigitsOf(s) # <<>>

\* C17 (as claimed): the amount normalizer keeps the digits and a single decimal
\* point and drops every other character; its result is null or parses as a
\* finite number, and it is null for an input without digits.
C17_AmountCleaned ==
    AmountReturned =>
        /\ ret.val = NoneV \/ IsNumberText(ret.val)
        /\ DigitsOf(arg) = <<>> => ret.val = NoneV
        /\ DigitsOf(arg) # <<>> =>
              /\ ret.val # NoneV
              /\ DigitsOf(ret.val) = DigitsOf(arg)
        /\ arg = <<"$","1","5",".","0","0","0"," ","C","L","P">>
              => ret.val = <<"1","5",".","0","0","0">>

CleanReturned == fn = "_clean_extracted_data" /\ ret.done

\* C18 (as claimed): normalizing is idempotent: for every record with string or
\* null values, normalizing the normalized record gives the normalized record.
C18_Idempotent ==
    CleanReturned => CleanExtractedData(ret.val) = ret.val

ValidateReturned == fn = "validate_extracted_data" /\ ret.done

\* the request holds all nine required fields as non-empty texts, fecha as
\* D/M/YYYY, rut as XX.XXX.XXX-X and total as a number text, and its
\* confidence is an integer of 70..100
CanonicalRequest ==
    /\ arg.keys = {"extractedData", "confidence"}
    /\ \A i \in 1..Len(RequiredFields) :
          /\ RequiredFields[i] \in DOMAIN arg.extractedData
          /\ IsStr(arg.extractedData[RequiredFields[i]])
          /\ arg.extractedData[RequiredFields[i]] # <<>>
    /\ arg.extractedData.fecha \in {V_FechaCanon, V_FechaCorta}
    /\ arg.extractedData.rut \in {V_Rut, V_RutCorto}
    /\ arg.extractedData.total = V_Total
    /\ arg.confidence.t = "int"
    /\ arg.confidence.n \in 70..100

\* C19: a request to /api/validate-extracted-data whose extractedData holds
\* all nine required fields non-empty in canonical format and whose confidence
\* is an integer in 70..100 is answered with status 200, success = true and
\* isValid = true.
C19_CanonicalIsValid ==
    (ValidateReturned /\ CanonicalRequest) =>
        /\ ret.val.status = 200
        /\ ret.val.success
        /\ ret.val.data.isValid

\* a canonical request at the threshold confidence of 70 has been answered
C19_Witness ==
    /\ ValidateReturned
    /\ CanonicalRequest
    /\ arg.confidence.n = 70
    /\ arg.extractedData.fecha = V_FechaCorta
    /\ ret.val.data.recommendations = <<"ready">>

ProcessReturned == fn = "process_document" /\ ret.done

\* the image of the request is non-empty and base64.b64decode accepts its
\* part after the last comma
ValidImage ==
    /\ arg.request.image # <<>>
    /\ B64Decodes(LastPart(arg.request.image))

\* C20: a request to /api/process-document with a non-empty, validly
\* base64-encoded image is answered, whatever the outcome of the model call
\* (client unavailable, exception, unparsable reply, empty object, object
\* reply), with status 200, success = true and a data mapping that carries the
\* expenseId and the userData of the request.
C20_AlwaysAnswers ==
    (ProcessReturned /\ ValidImage) =>
        /\ ret.val.status = 200
        /\ ret.val.success
        /\ {"expenseId", "userData"} \subseteq DOMAIN ret.val.data
        /\ ret.val.data.expenseId = arg.request.expenseId
        /\ ret.val.data.userData = arg.request.userData

\* a data URL image has been answered after the model call raised
C20_Witness ==
    /\ ProcessReturned
    /\ client
    /\ arg.request.image = DataPrefix \o <<",", "A", "A", "A", "A">>
    /\ arg.outcome = Raise
    /\ ret.val.status = 200
    /\ ret.val.data.tipoDocumento = S_Boleta

StagesWithRefine == <<"classify", "extract", "validate", "detect", "refine", "score">>
StagesWithoutRefine == <<"classify", "extract", "validate", "detect", "score">>

IsPrefix(a, b) == Len(a) <= Len(b) /\ SubSeq(b, 1, Len(a)) = a

\* the position of process_document among its statements
Rank(p) ==
    CASE p = "start" -> 0
      [] p = "classify" -> 1
      [] p = "extract" -> 2
      [] p = "validate" -> 3
      [] p = "detect" -> 4
      [] p = "refine" -> 5
      [] p = "score" -> 6
      [] p = "combine" -> 7
      [] OTHER -> 8

\* the value a stage takes from the previous stage has been returned
PreviousReturned ==
    /\ pc = "extract" => analysis.t # "unset"
    /\ pc = "validate" => extracted.t # "unset"
    /\ pc = "detect" => validated.t # "unset"
    /\ pc = "refine" => missing # NotDetected
    /\ pc = "score" => refined.t # "unset"
    /\ pc = "combine" => meta.t # "unset"

\* C21: with an established client the stages of process_document run in the
\* order Classify, Extract, Validate, DetectMissing, optional Refine, Score,
\* each at most once, without retry or backward edge, each model call by the
\* stage that is running, and a stage starts only after the previous stage
\* has returned its value.
C21_StagesInOrder ==
    /\ [](client => /\ IsPrefix(trace, StagesWithRefine) \/ IsPrefix(trace, StagesWithoutRefine)
                    /\ \A st \in Stages : Count(calls, st) <= Count(trace, st)
                    /\ PreviousReturned)
    /\ [][pc' # pc => Rank(pc') > Rank(pc)]_vars

\* an invocation that ran all six stages, the refinement among them
C21_Witness ==
    /\ client
    /\ Returned
    /\ trace = StagesWithRefine
    /\ calls = <<"classify", "extract", "validate", "refine">>

\* a field value that is not blank: a number or list, or a string with a
\* character that is no whitespace
NonBlankValue(v) == v # NoneV /\ (IsStr(v) => Strip(v) # <<>>)

\* C22 (as claimed): the refinement merge only fills blank keys: for every
\* refinement reply, each field that held a non-blank value in the validated
\* record holds the same value in the record after Refine.
C22_MergeOnlyFillsBlanks ==
    (AfterRefinement /\ Ran("refine") /\ IsDict(validated)) =>
        /\ IsDict(refined)
        /\ \A k \in DOMAIN validated.m :
              NonBlankValue(validated.m[k]) =>
                  k \in DOMAIN refined.m /\ refined.m[k] = validated.m[k]

\* the candidates of the four strategies, in order: the whole text, the
\* fenced block, the greedy {...} span, the first line beginning with {
StrategyCandidates(s) ==
    LET f == FencedMatch(s)
        b == BraceMatch(s)
        l == BraceLine(s)
    IN <<s>>
       \o (IF f # <<0, 0>> THEN <<SubSeq(s, f[1] + 1, f[2] - 1)>> ELSE <<>>)
       \o (IF b # <<0, 0>> THEN <<SubSeq(s, b[1], b[2])>> ELSE <<>>)
       \o (IF l # <<0, 0>> THEN <<SubSeq(s, l[1], l[2])>> ELSE <<>>)

\* the value of the first candidate that parses, the empty mapping when none does
FirstSuccess(s) ==
    LET cs == StrategyCandidates(s)
        oks == {i \in 1..Len(cs) : JsonLoads(cs[i]).ok}
    IN IF oks = {} THEN EmptyDict
       ELSE JsonLoads(cs[CHOOSE i \in oks : \A j \in oks : i <= j]).val

\* C23 (as claimed): the strategies are tried in order and the first success
\* wins: a strategy whose candidate fails to parse is followed by the next, and
\* the empty mapping is returned only if all of them fail.
C23_NextStrategyTried ==
    ppc = "returned" => parsed.val = FirstSuccess(text)

\* the notes of a record and an analysis for a given confidence: each advisory
\* exactly when its condition holds
NotesFor(d, an, confidence) ==
    (IF "quality" \in DOMAIN an /\ an["quality"] = S_mala THEN <<NoteLowQuality>> ELSE <<>>)
    \o (IF "rut" \notin DOMAIN d \/ ~FTruthy(d["rut"]) THEN <<NoteNoRut>> ELSE <<>>)
    \o (IF "fecha" \notin DOMAIN d \/ ~FTruthy(d["fecha"]) THEN <<NoteNoFecha>> ELSE <<>>)
    \o (IF confidence < 70 THEN <<NoteLowConfidence>> ELSE <<>>)

NotesReturned ==
    ScoreReturned /\ IsDict(arg.data) /\ IsDict(arg.an)
        /\ "processing_notes" \in DOMAIN ret.val.m

\* C24 (as claimed): the notes follow the scored result: the low-confidence
\* advisory exactly when the computed confidence is below 70, the low-quality
\* advisory exactly when the quality is mala, the missing-ID and missing-date
\* advisories exactly when rut or fecha is absent, and no notes for a record
\* with rut and fecha, good quality and a computed confidence of at least 70.
C24_NotesFollowScore ==
    NotesReturned =>
        ret.val.m["processing_notes"] =
            NotesFor(arg.data.m, arg.an.m, ret.val.m["confidence"])

\* s is n digits
Digits(s, n) == Len(s) = n /\ \A i \in 1..n : IsDigit(s[i])

\* the parts of s between the occurrences of the character c
RECURSIVE SplitAt(_, _)
SplitAt(s, c) ==
    LET at == {i \in 1..Len(s) : s[i] = c} IN
    IF at = {} THEN <<s>>
    ELSE LET i == CHOOSE a \in at : \A b \in at : a <= b
         IN <<SubSeq(s, 1, i - 1)>> \o SplitAt(SubSeq(s, i + 1, Len(s)), c)

\* ^\d{1,2}/\d{1,2}/\d{4}$
MatchesDatePattern(s) ==
    LET p == SplitAt(s, "/") IN
    /\ Len(p) = 3
    /\ Digits(p[1], 1) \/ Digits(p[1], 2)
    /\ Digits(p[2], 1) \/ Digits(p[2], 2)
    /\ Digits(p[3], 4)

\* ^\d{1,2}\.\d{3}\.\d{3}-X$ with the checksum X among the characters cs
MatchesRutPattern(s, cs) ==
    LET p == SplitAt(s, ".") IN
    /\ Len(p) = 3
    /\ Digits(p[1], 1) \/ Digits(p[1], 2)
    /\ Digits(p[2], 3)
    /\ Len(p[3]) = 5
    /\ Digits(SubSeq(p[3], 1, 3), 3)
    /\ p[3][4] = "-"
    /\ IsDigit(p[3][5]) \/ p[3][5] \in cs

\* s is written as a number: between blanks, an optional sign and digits with
\* at most one point
WrittenAsNumber(s) ==
    LET t == Strip(s)
        u == IF t # <<>> /\ t[1] \in {"-", "+"} THEN SubSeq(t, 2, Len(t)) ELSE t
    IN /\ Len(DigitsOf(u)) >= 1
       /\ PointsOf(u) <= 1
       /\ Len(DigitsOf(u)) + PointsOf(u) = Len(u)

Letters == {"k", "K", "A", "z"}

FormatReturned == fn \in {"_is_valid_date_format", "_is_valid_rut_format", "_is_valid_amount"} /\ ret.done

\* C25 (amended): the format validators accept exactly these strings: a date
\* iff it matches ^\d{1,2}/\d{1,2}/\d{4}$, a national ID iff it matches
\* ^\d{1,2}\.\d{3}\.\d{3}-[\dkK]$ (a digit, k or K as checksum), an amount iff
\* it parses as a number.
C25_ValidatorsAccept ==
    FormatReturned =>
        /\ fn = "_is_valid_date_format" => (ret.val <=> MatchesDatePattern(arg))
        /\ fn = "_is_valid_rut_format" => (ret.val <=> MatchesRutPattern(arg, {"k", "K"}))
        /\ fn = "_is_valid_amount" => (ret.val <=> WrittenAsNumber(arg))

\* an ID whose checksum is the letter A has been rejected
C25_Witness ==
    /\ FormatReturned
    /\ fn = "_is_valid_rut_format"
    /\ arg = <<"7","6",".","1","2","3",".","4","5","6","-","A">>
    /\ ret.val = FALSE

\* C25 (as claimed): a national ID is accepted iff it matches
\* ^\d{1,2}\.\d{3}\.\d{3}-[\dA-Za-z]$, any letter or digit as checksum.
C25_AnyLetterChecksum ==
    FormatReturned =>
        /\ fn = "_is_valid_date_format" => (ret.val <=> MatchesDatePattern(arg))
        /\ fn = "_is_valid_rut_format" => (ret.val <=> MatchesRutPattern(arg, Letters))
        /\ fn = "_is_valid_amount" => (ret.val <=> WrittenAsNumber(arg))

AfterExtract == client /\ pc \in {"validate", "detect", "refine", "score", "combine", "done"}

\* the call of a stage raised, or reading its reply did
CallFailed(st) == replies[st] \in {Raise, NoContent}

\* an exception was raised inside the Field Extractor: by stripping the
\* image's prefix, by reading the type of an analysis that is no mapping or
\* whose type is a list, or by the call
ExtractorRaised ==
    \/ image = "badprefix"
    \/ ~IsDict(analysis)
    \/ ("type" \in DOMAIN analysis.m /\ analysis.m["type"] = ListV)
    \/ CallFailed("extract")

\* an exception was raised inside the Validator: by reading a value that is no
\* mapping (the record, or the analysis), or by the call
ValidatorRaised ==
    \/ Truthy(extracted) /\ ~IsDict(extracted)
    \/ ~IsDict(analysis)
    \/ CallFailed("validate")

\* an exception was raised inside the Targeted Refinement: by the detector,
\* by stripping the image's prefix, by the call, or by merging a reply that is
\* no mapping
RefinementRaised ==
    \/ missing.raised
    \/ /\ Ran("refine")
       /\ \/ image = "badprefix"
          \/ CallFailed("refine")
          \/ replies["refine"] \in {TextReply(T_Num), TextReply(T_Null)}

\* C26: an exception raised inside a stage becomes, at that stage's boundary,
\* the stage's failure value: the Field Extractor returns the empty mapping,
\* the Validator returns its input unchanged, the Targeted Refinement leaves
\* the validated record unchanged; and the pipeline goes on to the next stage
\* with that value.
C26_FailureValues ==
    /\ []((AfterExtract /\ ExtractorRaised) => extracted = EmptyDict)
    /\ []((AfterValidate /\ ValidatorRaised) => validated = extracted)
    /\ []((AfterRefinement /\ RefinementRaised) => refined = validated)
    /\ [][/\ pc = "extract" => pc' = "validate"
          /\ pc = "validate" => pc' = "detect"
          /\ pc = "detect" => pc' \in {"refine", "score"}
          /\ pc = "refine" => pc' = "score"]_vars

\* an invocation where the extractor's call, the validator's and the
\* refinement's each failed, and the scorer still ran on the blank record
C26_Witness ==
    /\ Returned
    /\ client
    /\ CallFailed("extract")
    /\ extracted = EmptyDict
    /\ replies["refine"] = Raise
    /\ refined = validated
    /\ Ran("score")
    /\ ~caught

\* C27 (as claimed): a request to /api/process-document whose image is empty
\* or is not valid base64 is rejected with HTTP status 400.
C27_RejectedWith400 ==
    (ProcessReturned /\ ~ValidImage) => ret.val.status = 400

BothReturned == fn = "process_document(context)" /\ ret.done /\ peer.pc = "done"

\* C28: the pipeline does not interpret the caller's context: two invocations
\* of process_document with the same image and the same model replies but
\* different context objects return equal records, in the normal path and in
\* the fallback path.
C28_ContextIgnored ==
    BothReturned => ret.val = peer.result

\* two invocations with different contexts both returned the fallback record
\* after building the result raised (the classifier replied the number 42)
C28_Witness ==
    /\ BothReturned
    /\ client
    /\ arg.replies["classify"] = TextReply(T_Num)
    /\ arg.context = PyDict([expenseId |-> V_Folio])
    /\ peer.context = PyNone
    /\ IsFallback(ret.val)
    /\ IsFallback(peer.result)

\* the field is missing from the record, null or the empty text
MissingOrEmpty(data, f) == f \notin DOMAIN data \/ data[f] = NoneV \/ data[f] = <<>>

\* the field is present and its value is not in the field's format
FailsFormat(data, f) ==
    /\ ~MissingOrEmpty(data, f)
    /\ \/ f = "fecha" /\ ~MatchesDatePattern(data[f])
       \/ f = "rut" /\ ~MatchesRutPattern(data[f], {"k", "K"})
       \/ f = "total" /\ IsStr(data[f]) /\ ~WrittenAsNumber(data[f])

ValidationComputed == ValidateReturned /\ ret.val.status = 200

\* C29: in the outcome of _validate_document_data, is_valid is false exactly
\* when at least one of the nine required fields is missing or empty, with one
\* error per such field; a present fecha, rut or total that fails its format
\* validator adds a warning and sets field_validations[field] to false but
\* leaves is_valid unchanged; the endpoint's isValid is true exactly when
\* is_valid holds and the confidence is at least 70.
C29_ValidationOutcome ==
    ValidationComputed =>
        LET data == arg.extractedData
            outcome == ret.val.data.validationResults
            lacking(f) == MissingOrEmpty(data, f)
            failing(f) == FailsFormat(data, f)
        IN /\ outcome.is_valid = (\A i \in 1..Len(RequiredFields) : ~lacking(RequiredFields[i]))
           /\ outcome.errors = SelectSeq(RequiredFields, lacking)
           /\ outcome.warnings = SelectSeq(FormatFields, failing)
           /\ \A i \in 1..Len(RequiredFields) :
                 outcome.field_validations[i] =
                     (~lacking(RequiredFields[i]) /\ ~failing(RequiredFields[i]))
           /\ ret.val.data.isValid =
                 (outcome.is_valid /\ ret.val.data.confidence >= 70)

\* a request with all nine fields, an ISO fecha and a raw rut, confidence 85:
\* two warnings, both fields marked false, is_valid and isValid true
C29_Witness ==
    /\ ValidationComputed
    /\ ret.val.data.validationResults.errors = <<>>
    /\ arg.extractedData.fecha = V_FechaIso
    /\ arg.extractedData.rut = V_RutRaw
    /\ ret.val.data.validationResults.warnings = <<"fecha", "rut">>
    /\ ret.val.data.validationResults.is_valid
    /\ ret.val.data.confidence = 85
    /\ ret.val.data.isValid

\* C30: normalizers and format validators agree: whenever the date normalizer
\* or the national-ID normalizer recognizes its input, its output is accepted
\* by the matching format validator, and every non-null output of the amount
\* normalizer is accepted by the amount validator.
C30_NormalizersAgree ==
    /\ DateReturned /\ HasDate(arg) => IsValidDateFormat(ret.val)
    /\ RutReturned /\ HasRut(arg) => IsValidRutFormat(ret.val)
    /\ AmountReturned /\ ret.val # NoneV => IsValidAmount(ret.val)

\* a year-first date inside other text, which the date validator rejects, was
\* normalized to a text the validator accepts
C30_Witness ==
    /\ DateReturned
    /\ DayFirstMatches(arg) = {}
    /\ YearFirstMatches(arg) # {}
    /\ Len(arg) > 10
    /\ ~IsValidDateFormat(arg)
    /\ IsValidDateFormat(ret.val)

====
